---- MODULE Spec2Model ----
(***************************************************************************)
(* A state-machine model of the mseedlib Python package: the MSTraceList   *)
(* container (trace index, segment assembly, streaming packer, deferred    *)
(* decode) and the MS3Record packer.  The Python layer is translated from  *)
(* src/src/mseedlib; the libmseed C functions it calls through ctypes      *)
(* (mstl3_findID, mstl3_addmsr_recordptr, mstl3_pack, msr3_pack, ...) are  *)
(* not part of the translated sources and are modelled from spec.md.       *)
(*                                                                         *)
(* Source identifiers are modelled by their rank in the sorted table SID,  *)
(* so that strcmp() on two identifiers is the difference of their ranks.   *)
(* Times are integer nanoseconds; sample rates are integer Hz values that  *)
(* divide NSTMODULUS, so the sample period is an exact integer.            *)
(***************************************************************************)
EXTENDS Integers, Sequences, FiniteSets, TLC

----------------------------------------------------------------------------
(* Program constants (definitions.py)                                      *)

NSTMODULUS == 1000000000

MS_NOERROR == 0

MS_GENERROR == -1

MS_ENDOFFILE == 1

MS_NOTSEED == -2

MS_WRONGLENGTH == -3

MS_OUTOFRANGE == -4

MS_INVALIDCRC == -7

\* DataEncoding.INT16 and DataEncoding.INT32
INT16 == 1

INT32 == 3

\* Default record length of MSTraceList.pack and of an unset MS3Record.reclen
DefaultRecordLength == 4096

(* Bounds of the model                                                     *)

MaxRecords == 3

MaxFiles == 1

MaxSamples == 2

\* Calls made on the segments of a trace list that was read, and on readers.
MaxCalls == 4

----------------------------------------------------------------------------
(* Input domains                                                           *)

\* Sorted table of source identifiers; a sourceid is its rank in the table.
SID == << "FDSN:XX_TEST__B_S_0", "FDSN:XX_TEST__B_S_1", "FDSN:XX_TEST__B_S_2" >>

SourceIds == 1..Len(SID)

\* Sample rates in Hz (periods of 4 ns and 2 ns).
RateA == NSTMODULUS \div 4

RateB == NSTMODULUS \div 2

NULL == 0

----------------------------------------------------------------------------
(* Sequence helpers                                                        *)

RECURSIVE SumSeq(_)
SumSeq(s) == IF s = << >> THEN 0 ELSE Head(s) + SumSeq(Tail(s))

RECURSIVE Flatten(_)
Flatten(ss) == IF ss = << >> THEN << >> ELSE Head(ss) \o Flatten(Tail(ss))

Min2(a, b) == IF a <= b THEN a ELSE b

Max2(a, b) == IF a >= b THEN a ELSE b

Abs(a) == IF a < 0 THEN -a ELSE a

----------------------------------------------------------------------------
(* libmseed: record times                                                  *)

\* Nominal sample period in nanoseconds of a rate in Hz (0 for no rate).
SamplePeriod(samprate) == IF samprate = 0 THEN 0 ELSE NSTMODULUS \div samprate

\* The quotient a / b rounded to the nearest integer, for a >= 0 and b > 0.
RoundDiv(a, b) == (2 * a + b) \div (2 * b)

\* msr3_sampratehz: the sample rate in samples per second as the fraction
\* [num, den].  A positive stored value is a rate in samples per second, a
\* negative one a sample period in seconds.
msr3_sampratehz(msr) ==
    IF msr.samprate < 0 THEN [num |-> 1, den |-> -msr.samprate]
    ELSE [num |-> msr.samprate, den |-> 1]

\* The time `offset` samples take at the stored rate `samprate`, as whole
\* seconds and nanoseconds: offset / rate * 1e9, rounded to the nanosecond.
SampleOffset(offset, samprate) ==
    IF samprate = 0 THEN [sec |-> 0, ns |-> 0]
    ELSE IF samprate < 0 THEN [sec |-> offset * (-samprate), ns |-> 0]
    ELSE LET m == offset % samprate
         IN [sec |-> offset \div samprate,
             ns  |-> m * (NSTMODULUS \div samprate)
                     + RoundDiv(m * (NSTMODULUS % samprate), samprate)]

\* Time of the sample at `offset` samples after `nstime`.
ms_sampletime(nstime, offset, samprate) ==
    LET d == SampleOffset(offset, samprate)
    IN nstime + d.sec * NSTMODULUS + d.ns

\* Time of the last sample of a record.
msr3_endtime(msr) ==
    IF msr.samplecnt > 0 /\ msr.samprate # 0
    THEN ms_sampletime(msr.starttime, msr.samplecnt - 1, msr.samprate)
    ELSE msr.starttime

----------------------------------------------------------------------------
(* libmseed: the trace index.  An MS3TraceList is                          *)
(*   [numtraceids, traces, next0]                                          *)
(* where traces is the arena of MS3TraceID nodes in creation order, next0  *)
(* is the level-0 link of the head node, and every node carries its own    *)
(* level-0 link `next` (NULL at the end of the list).                      *)

mstl3_init == [numtraceids |-> 0, traces |-> << >>, next0 |-> NULL]

\* strcmp(sid) followed by the publication version when one is requested.
IDCompare(id, sid, pubversion) ==
    IF id.sid # sid THEN id.sid - sid
    ELSE IF pubversion # 0 /\ id.pubversion # pubversion
         THEN id.pubversion - pubversion
         ELSE 0

\* Walk the level-0 links from node `cur`, whose predecessor is `prev`,
\* to the first node that does not sort before (sid, pubversion).
RECURSIVE SkipSearch(_, _, _, _, _)
SkipSearch(l, prev, cur, sid, pubversion) ==
    IF cur = NULL THEN [prev |-> prev, at |-> NULL]
    ELSE IF IDCompare(l.traces[cur], sid, pubversion) < 0
         THEN SkipSearch(l, cur, l.traces[cur].next, sid, pubversion)
         ELSE [prev |-> prev, at |-> cur]

\* Index of the matching MS3TraceID, or NULL.
mstl3_findID(l, sid, pubversion) ==
    LET s == SkipSearch(l, NULL, l.next0, sid, pubversion)
    IN IF s.at # NULL /\ IDCompare(l.traces[s.at], sid, pubversion) = 0
       THEN s.at ELSE NULL

----------------------------------------------------------------------------
(* libmseed: segment assembly.  An MS3TraceSeg is                          *)
(*   [starttime, endtime, samprate, samplecnt, datasamples, numsamples,    *)
(*    sampletype, recordlist, updated]                                     *)
(* datasamples = << >> is a NULL _datasamples pointer and recordlist =     *)
(* << >> is a NULL _recordlist pointer.  `updated` is TraceSegInfo.updated.*)

\* Default time tolerance: half of the sample period.
TimeTolerance(samprate) == SamplePeriod(samprate) \div 2

\* The record continues the segment: same rate and its first sample is one
\* period after the segment's last sample, within the time tolerance.
IsContinuous(seg, msr) ==
    /\ seg.samprate = msr.samprate
    /\ Abs(msr.starttime - (seg.endtime + SamplePeriod(seg.samprate)))
          <= TimeTolerance(seg.samprate)

\* A new segment covering one record.
msr2seg(msr, recptr) ==
    [starttime   |-> msr.starttime,
     endtime     |-> msr3_endtime(msr),
     samprate    |-> msr.samprate,
     samplecnt   |-> msr.samplecnt,
     datasamples |-> msr.datasamples,
     numsamples  |-> msr.numsamples,
     sampletype  |-> msr.sampletype,
     recordlist  |-> recptr,
     updated     |-> 0]

\* The segment extended at its end by one record.
addmsrtoseg(seg, msr, recptr) ==
    [seg EXCEPT !.endtime     = msr3_endtime(msr),
                !.samplecnt   = @ + msr.samplecnt,
                !.datasamples = @ \o msr.datasamples,
                !.numsamples  = @ + msr.numsamples,
                !.sampletype  = IF msr.numsamples > 0 THEN msr.sampletype ELSE @,
                !.recordlist  = @ \o recptr]

\* The trace ID with one record assimilated: the last segment is extended
\* when the record continues it, otherwise a new segment is started after
\* the last segment.  [id, seg]: the updated trace ID and the index of the
\* segment.
AddToID(id, msr, recptr) ==
    LET n       == Len(id.segs)
        extend  == n > 0 /\ IsContinuous(id.segs[n], msr)
        pos     == IF extend THEN n ELSE n + 1
        segs    == IF extend
                   THEN [id.segs EXCEPT ![n] = addmsrtoseg(@, msr, recptr)]
                   ELSE Append(id.segs, msr2seg(msr, recptr))
    IN [id  |-> [id EXCEPT !.segs        = segs,
                           !.numsegments = IF extend THEN @ ELSE @ + 1,
                           !.earliest    = Min2(@, msr.starttime),
                           !.latest      = Max2(@, msr3_endtime(msr)),
                           !.pubversion  = Max2(@, msr.pubversion)],
        seg |-> pos]

\* A new trace ID holding one segment for the record.
NewID(msr, recptr, next) ==
    [sid         |-> msr.sid,
     pubversion  |-> msr.pubversion,
     earliest    |-> msr.starttime,
     latest      |-> msr3_endtime(msr),
     numsegments |-> 1,
     segs        |-> << msr2seg(msr, recptr) >>,
     next        |-> next]

\* Add a record to the trace list.  splitversion selects the key: the
\* sourceid alone (0) or the sourceid and the publication version.  The
\* result is [mstl, segptr]; segptr is << id index, segment index >>.
mstl3_addmsr_recordptr(l, msr, recptr, splitversion, autoheal) ==
    LET pubversion == IF splitversion # 0 THEN msr.pubversion ELSE 0
        s     == SkipSearch(l, NULL, l.next0, msr.sid, pubversion)
        found == s.at # NULL /\ IDCompare(l.traces[s.at], msr.sid, pubversion) = 0
        new   == Len(l.traces) + 1
    IN IF found
       THEN LET r == AddToID(l.traces[s.at], msr, recptr)
            IN [mstl   |-> [l EXCEPT !.traces[s.at] = r.id],
                segptr |-> << s.at, r.seg >>]
       ELSE LET linked == IF s.prev = NULL THEN l.traces
                          ELSE [l.traces EXCEPT ![s.prev].next = new]
            IN [mstl   |-> [numtraceids |-> l.numtraceids + 1,
                            traces      |-> Append(linked, NewID(msr, recptr, s.at)),
                            next0       |-> IF s.prev = NULL THEN new ELSE l.next0],
                segptr |-> << new, 1 >>]

----------------------------------------------------------------------------
(* libmseed: packing.  A packed record is modelled by the header fields    *)
(* and payload that determine its bytes:                                   *)
(*   [sid, pubversion, starttime, samprate, samplecnt, data,               *)
(*    formatversion, reclen]                                               *)

\* Bytes of a record that precede the payload, and bytes of one sample.
HeaderLength == 40

\* Bytes of one encoded sample.
SampleSize(encoding) == IF encoding = INT16 THEN 2 ELSE 4

\* Number of samples the payload of a record of the given length holds.
RecordCapacity(record_length, encoding) ==
    (record_length - HeaderLength) \div SampleSize(encoding)

\* The decimal digits, digit d at position d + 1.
Digits == << "0", "1", "2", "3", "4", "5", "6", "7", "8", "9" >>

\* n written in `width` decimal digits, zero-padded ("%06d" for width 6).
RECURSIVE ZeroPadded(_, _)
ZeroPadded(n, width) ==
    IF width = 0 THEN << >>
    ELSE Append(ZeroPadded(n \div 10, width - 1), Digits[(n % 10) + 1])

\* A map of extra headers has the key.
HasKey(headers, key) == key \in DOMAIN headers

\* The 6 bytes a version 2 record starts with: the sequence number of the
\* extra header FDSN.Sequence, or zeros.
SequenceField(msr) ==
    IF HasKey(msr.extra, "FDSN") /\ HasKey(msr.extra["FDSN"], "Sequence")
    THEN ZeroPadded(msr.extra["FDSN"]["Sequence"], 6)
    ELSE ZeroPadded(0, 6)

\* One packed record.  A version 3 record is as long as its content and
\* carries the extra headers; a version 2 record always has the full record
\* length, starts with the sequence number and has no extra headers.
PackedRecord(msr, starttime, data, record_length, encoding, flags) ==
    [sid           |-> msr.sid,
     pubversion    |-> msr.pubversion,
     starttime     |-> starttime,
     samprate      |-> msr.samprate,
     samplecnt     |-> Len(data),
     data          |-> data,
     encoding      |-> encoding,
     formatversion |-> IF "MSF_PACKVER2" \in flags THEN 2 ELSE 3,
     reclen        |-> IF "MSF_PACKVER2" \in flags THEN record_length
                       ELSE HeaderLength + SampleSize(encoding) * Len(data),
     sequence      |-> IF "MSF_PACKVER2" \in flags THEN SequenceField(msr)
                       ELSE << >>,
     extra         |-> IF "MSF_PACKVER2" \in flags THEN << >> ELSE msr.extra]

\* Records for the samples from offset `done` on: full records while enough
\* samples remain, and a final partial record only when flushing.
RECURSIVE PackFrom(_, _, _, _, _)
PackFrom(msr, done, record_length, encoding, flags) ==
    LET cap  == RecordCapacity(record_length, encoding)
        left == msr.numsamples - done
        take == IF left >= cap THEN cap
                ELSE IF "MSF_FLUSHDATA" \in flags THEN left ELSE 0
    IN IF take <= 0 THEN << >>
       ELSE << PackedRecord(msr, ms_sampletime(msr.starttime, done, msr.samprate),
                            SubSeq(msr.datasamples, done + 1, done + take),
                            record_length, encoding, flags) >>
            \o PackFrom(msr, done + take, record_length, encoding, flags)

\* Number of samples in a sequence of records.
RECURSIVE SamplesIn(_)
SamplesIn(recs) == IF recs = << >> THEN 0
                   ELSE Head(recs).samplecnt + SamplesIn(Tail(recs))

\* msr3_pack: the records produced for the samples of one record structure;
\* a record structure without samples gives one record without payload.
msr3_pack(msr, record_length, encoding, flags) ==
    LET recs == IF msr.numsamples <= 0
                THEN << PackedRecord(msr, msr.starttime, << >>, record_length,
                                     encoding, flags) >>
                ELSE PackFrom(msr, 0, record_length, encoding, flags)
    IN [records |-> recs, packedsamples |-> SamplesIn(recs)]

\* The segment after `packed` of its samples were packed: the packed
\* samples are removed and the start time moves to the first sample kept.
SegAfterPack(seg, packed) ==
    [seg EXCEPT !.starttime   = ms_sampletime(@, packed, seg.samprate),
                !.datasamples = SubSeq(@, packed + 1, Len(@)),
                !.samplecnt   = @ - packed,
                !.numsamples  = @ - packed]

\* The record structure mstl3_pack fills in for a segment.
SegAsRecord(id, seg) ==
    [sid |-> id.sid, pubversion |-> id.pubversion, starttime |-> seg.starttime,
     samprate |-> seg.samprate, samplecnt |-> seg.samplecnt,
     datasamples |-> seg.datasamples, numsamples |-> seg.numsamples,
     sampletype |-> seg.sampletype, extra |-> << >>]

\* Pack the segments of one trace ID from segment i on, in list order.
RECURSIVE PackSegs(_, _, _, _, _)
PackSegs(id, i, record_length, encoding, flags) ==
    IF i > Len(id.segs) THEN [id |-> id, records |-> << >>]
    ELSE LET p    == IF id.segs[i].numsamples > 0
                     THEN msr3_pack(SegAsRecord(id, id.segs[i]), record_length,
                                    encoding, flags)
                     ELSE [records |-> << >>, packedsamples |-> 0]
             id2  == [id EXCEPT !.segs[i] = SegAfterPack(@, p.packedsamples)]
             rest == PackSegs(id2, i + 1, record_length, encoding, flags)
         IN [id |-> rest.id, records |-> p.records \o rest.records]

\* Pack the trace IDs from node `cur` on, following the level-0 links.
RECURSIVE PackIDs(_, _, _, _, _)
PackIDs(l, cur, record_length, encoding, flags) ==
    IF cur = NULL THEN [mstl |-> l, records |-> << >>]
    ELSE LET p    == PackSegs(l.traces[cur], 1, record_length, encoding, flags)
             l2   == [l EXCEPT !.traces[cur] = p.id]
             rest == PackIDs(l2, l.traces[cur].next, record_length, encoding, flags)
         IN [mstl |-> rest.mstl, records |-> p.records \o rest.records]

\* mstl3_pack: [mstl, records, packedsamples, packedrecords]; the records
\* are handed to the record handler one by one, in this order.
mstl3_pack(l, record_length, encoding, flags) ==
    LET p == PackIDs(l, l.next0, record_length, encoding, flags)
    IN [mstl          |-> p.mstl,
        records       |-> p.records,
        packedsamples |-> SamplesIn(p.records),
        packedrecords |-> Len(p.records)]

----------------------------------------------------------------------------
(* libmseed: source identifiers.  A string is the sequence of its          *)
(* characters.                                                             *)

LM_SIDLEN == 64

\* The fields of a string between the delimiters "_".
RECURSIVE Fields(_)
Fields(str) ==
    IF \A k \in 1..Len(str) : str[k] # "_" THEN << str >>
    ELSE LET k == CHOOSE x \in 1..Len(str) :
                     str[x] = "_" /\ \A y \in 1..(x - 1) : str[y] # "_"
         IN << SubSeq(str, 1, k - 1) >> \o Fields(SubSeq(str, k + 1, Len(str)))

FDSN == << "F", "D", "S", "N", ":" >>

\* ms_nslc2sid: the identifier FDSN:NET_STA_LOC_B_S_SS of the codes, a
\* channel of three characters giving band, source and subsource; -1 when
\* it does not fit `sidlen` bytes with its terminator.
ms_nslc2sid(sidlen, net, sta, loc, chan) ==
    LET channel == IF Len(chan) = 3 /\ \A k \in 1..3 : chan[k] # "_"
                   THEN << chan[1], "_", chan[2], "_", chan[3] >>
                   ELSE chan
        sid     == FDSN \o net \o << "_" >> \o sta \o << "_" >> \o loc
                        \o << "_" >> \o channel
    IN IF Len(sid) + 1 > sidlen THEN [status |-> -1, sid |-> << >>]
       ELSE [status |-> Len(sid), sid |-> sid]

\* ms_sid2nslc_n: the codes of an identifier FDSN:NET_STA_LOC_B_S_SS, band,
\* source and subsource of one character each giving a channel of three
\* characters; -1 for a string of another form or a code that does not
\* fit its buffer of `size` bytes.
ms_sid2nslc_n(sid, size) ==
    LET body  == SubSeq(sid, Len(FDSN) + 1, Len(sid))
        f     == Fields(body)
        chan  == IF Len(f) = 6 /\ \A k \in 4..6 : Len(f[k]) = 1
                 THEN f[4] \o f[5] \o f[6]
                 ELSE f[4] \o << "_" >> \o f[5] \o << "_" >> \o f[6]
    IN IF Len(sid) < Len(FDSN) \/ SubSeq(sid, 1, Len(FDSN)) # FDSN \/ Len(f) # 6
       THEN [status |-> -1, nslc |-> << >>]
       ELSE IF \E code \in { f[1], f[2], f[3], chan } : Len(code) + 1 > size
       THEN [status |-> -1, nslc |-> << >>]
       ELSE [status |-> 0, nslc |-> << f[1], f[2], f[3], chan >>]

----------------------------------------------------------------------------
(* libmseed: reading a file into a trace list, deferred decoding           *)

\* The records stored in the files the model reads, in file order:
\* [sid, pubversion, starttime, samprate, samplecnt, payload].
FileRecords(file_name) ==
    IF file_name = "versions.mseed3"
    THEN << [sid |-> 3, pubversion |-> 1, starttime |-> 0, samprate |-> RateA,
             samplecnt |-> 2, payload |-> << 101, 102 >>],
            [sid |-> 1, pubversion |-> 1, starttime |-> 0, samprate |-> RateA,
             samplecnt |-> 1, payload |-> << 103 >>],
            [sid |-> 3, pubversion |-> 2, starttime |-> 8, samprate |-> RateA,
             samplecnt |-> 1, payload |-> << 104 >>] >>
    ELSE IF file_name = "corrupt.mseed3"
    THEN << [sid |-> 1, pubversion |-> 1, starttime |-> 0, samprate |-> RateA,
             samplecnt |-> 1, payload |-> << 201 >>],
            [sid |-> 2, pubversion |-> 1, starttime |-> 0, samprate |-> RateA,
             samplecnt |-> 1, payload |-> << 202 >>],
            [sid |-> 3, pubversion |-> 1, starttime |-> 0, samprate |-> RateA,
             samplecnt |-> 1, payload |-> << 203 >>] >>
    ELSE << >>

FileExists(file_name) == file_name \in { "versions.mseed3", "corrupt.mseed3" }

\* The stored CRC of record i of the file does not match its bytes.
BadCrc(file_name, i) == file_name = "corrupt.mseed3" /\ i = 2

\* The record structure parsed from a stored record under the parse flags.
ParsedRecord(rec, flags) ==
    LET unpack == "MSF_UNPACKDATA" \in flags
    IN [sid |-> rec.sid, pubversion |-> rec.pubversion, starttime |-> rec.starttime,
        samprate |-> rec.samprate, samplecnt |-> rec.samplecnt,
        datasamples |-> IF unpack THEN rec.payload ELSE << >>,
        numsamples  |-> IF unpack THEN rec.samplecnt ELSE 0,
        sampletype  |-> IF unpack THEN "i" ELSE ""]

\* Add the records of the file from record i on to the trace list, up to
\* the end of the file or the first record that fails CRC validation:
\* [status, mstl, added], the records before it staying in the list.
RECURSIVE ReadRecords(_, _, _, _, _)
ReadRecords(l, file_name, i, splitversion, flags) ==
    IF i > Len(FileRecords(file_name))
    THEN [status |-> MS_NOERROR, mstl |-> l, added |-> i - 1]
    ELSE IF BadCrc(file_name, i) /\ "MSF_VALIDATECRC" \in flags
    THEN [status |-> MS_INVALIDCRC, mstl |-> l, added |-> i - 1]
    ELSE LET msr    == ParsedRecord(FileRecords(file_name)[i], flags)
             recptr == IF "MSF_RECORDLIST" \in flags
                       THEN << [filename |-> file_name, fileoffset |-> i] >>
                       ELSE << >>
             r      == mstl3_addmsr_recordptr(l, msr, recptr, splitversion, 1)
         IN ReadRecords(r.mstl, file_name, i + 1, splitversion, flags)

\* ms3_readtracelist_selection: [status, mstl, added].
ms3_readtracelist_selection(l, file_name, splitversion, flags) ==
    IF FileExists(file_name)
    THEN ReadRecords(l, file_name, 1, splitversion, flags)
    ELSE [status |-> MS_GENERROR, mstl |-> l, added |-> 0]

\* The samples decoded from the records of a record list, in list order.
RECURSIVE DecodeList(_)
DecodeList(recordlist) ==
    IF recordlist = << >> THEN << >>
    ELSE FileRecords(Head(recordlist).filename)[Head(recordlist).fileoffset].payload
         \o DecodeList(Tail(recordlist))

\* mstl3_unpack_recordlist: the number of samples decoded from the record
\* list of the segment and the samples written to the output buffer.  With
\* no output buffer given (NULL) the library allocates one that the segment
\* owns from then on; a buffer supplied by the caller stays the caller's and
\* the segment is left as it was.
mstl3_unpack_recordlist(seg, output) ==
    LET samples == DecodeList(seg.recordlist)
    IN [status |-> Len(samples),
        output |-> samples,
        seg    |-> IF output = << >>
                   THEN [seg EXCEPT !.datasamples = samples,
                                    !.numsamples  = Len(samples),
                                    !.sampletype  = "i"]
                   ELSE seg]

----------------------------------------------------------------------------
(* libmseed: reading records from a stream.  The input is a sequence of    *)
(* items [kind, length, rec]: a record ("record"), a record whose stored   *)
(* CRC does not match its bytes ("badcrc"), bytes that are no record       *)
(* ("notseed"), a record header declaring a length outside the legal       *)
(* bounds ("outofrange") and a record that declares more bytes than the    *)
(* input holds ("truncated").  A position is the number of items consumed. *)

\* msr3_parse of the bytes of a record: the record structure, with the
\* samples decoded when unpacking is asked for.
ParsedFrom(rec, flags) ==
    LET unpack == "MSF_UNPACKDATA" \in flags
    IN [reclen |-> rec.reclen, formatversion |-> rec.formatversion,
        encoding |-> rec.encoding, sid |-> rec.sid, pubversion |-> rec.pubversion,
        starttime |-> rec.starttime, samprate |-> rec.samprate,
        samplecnt |-> rec.samplecnt,
        numsamples |-> IF unpack THEN rec.samplecnt ELSE 0,
        datasamples |-> IF unpack THEN rec.data ELSE << >>,
        sampletype |-> IF unpack /\ rec.samplecnt > 0 THEN "i" ELSE "",
        record |-> << rec >>, extra |-> rec.extra,
        record_handler |-> "None", record_handler_data |-> "None"]

\* Bytes of the input from position `offset` on.
RECURSIVE RemainingBytes(_, _)
RemainingBytes(input, offset) ==
    IF offset >= Len(input) THEN 0
    ELSE input[offset + 1].length + RemainingBytes(input, offset + 1)

\* msr3_parse: [status, msr] for the bytes at position `offset`: 0 and the
\* record, a negative error code, or the number of bytes missing when the
\* record declares more bytes than are there.
msr3_parse(input, offset, flags) ==
    LET item == input[offset + 1]
    IN CASE item.kind = "record" ->
              [status |-> MS_NOERROR, msr |-> ParsedFrom(item.rec, flags)]
         [] item.kind = "badcrc" ->
              IF "MSF_VALIDATECRC" \in flags
              THEN [status |-> MS_INVALIDCRC, msr |-> << >>]
              ELSE [status |-> MS_NOERROR, msr |-> ParsedFrom(item.rec, flags)]
         [] item.kind = "notseed" -> [status |-> MS_NOTSEED, msr |-> << >>]
         [] item.kind = "outofrange" -> [status |-> MS_OUTOFRANGE, msr |-> << >>]
         [] item.kind = "truncated" ->
              [status |-> item.rec.reclen - item.length, msr |-> << >>]

\* ms3_readmsr_selection: [status, msr, offset] for the next record of the
\* input: bytes that are no record are skipped when MSF_SKIPNOTDATA is set,
\* the end of the input gives MS_ENDOFFILE, a record that declares more
\* bytes than are left MS_WRONGLENGTH.
RECURSIVE ms3_readmsr_selection(_, _, _)
ms3_readmsr_selection(input, offset, flags) ==
    IF offset >= Len(input)
    THEN [status |-> MS_ENDOFFILE, msr |-> << >>, offset |-> offset]
    ELSE LET r == msr3_parse(input, offset, flags)
         IN IF r.status = MS_NOTSEED /\ "MSF_SKIPNOTDATA" \in flags
            THEN ms3_readmsr_selection(input, offset + 1, flags)
            ELSE IF r.status > 0
            THEN [status |-> MS_WRONGLENGTH, msr |-> << >>, offset |-> offset]
            ELSE IF r.status < 0
            THEN [status |-> r.status, msr |-> << >>, offset |-> offset]
            ELSE [status |-> MS_NOERROR, msr |-> r.msr, offset |-> offset + 1]

----------------------------------------------------------------------------
(* The Python layer: MSTraceList                                           *)

VARIABLES
    mstl,                 \* self._mstl: the MS3TraceList structure (in a traversal with the TraceSegInfo buffers)
    split_version,        \* self.split_version
    parse_flags,          \* self.parse_flags, as the set of flags that are set
    filenames,            \* self._filenames
    record_handler,       \* self._record_handler
    record_handler_data,  \* self._record_handler_data
    ret,                  \* outcome of the last call: [op, raised, val]
    calls,                \* handler invocations made by the last pack call
    requested,            \* history: was split_version=True ever passed in
    offered,              \* history: the records offered to the trace list
    record_buffer,        \* the records the handler kept: all of them, in order (the tool: the last)
    totals,               \* history: sums of the (packed_samples, packed_records) returned
    packing,              \* history: [params, flushes, last] of the pack calls that returned
    ms3record,            \* an MS3Record object, with its handler attributes
    msreader,             \* a record reader object: its input, position and flags (in a traversal: the generators)
    args,                 \* the command line arguments of the time-window tool
    stdout,               \* the records written to standard output, in order
    history               \* history: the outcomes of the calls on records and readers

vars == << mstl, split_version, parse_flags, filenames, record_handler,
           record_handler_data, ret, calls, requested, offered, record_buffer,
           totals, packing, ms3record, msreader, args, stdout, history >>

SampleTypes == { "i", "f", "d", "t" }

None == << >>

\* The outcome of a call: the value returned or the exception raised; for a
\* pack call also the handler and handlerdata it was given, for a lookup or
\* an unpack call also what it was called with.
Returned(op, val) ==
    [op |-> op, raised |-> "", val |-> val, handler |-> "", handlerdata |-> "",
     args |-> << >>]

Raised(op, exception) ==
    [op |-> op, raised |-> exception, val |-> << >>, handler |-> "",
     handlerdata |-> "", args |-> << >>]

CalledWith(outcome, arguments) == [outcome EXCEPT !.args = arguments]

GivenTo(outcome, handler, handlerdata) ==
    [outcome EXCEPT !.handler = handler, !.handlerdata = handlerdata]

\* MS3Record(): the defaults of msr3_init(), no samples, no handler yet.
MS3Record_init ==
    [reclen |-> -1, formatversion |-> 0, encoding |-> -1, sid |-> 1,
     pubversion |-> 0, starttime |-> 0, samprate |-> 0, samplecnt |-> -1,
     numsamples |-> 0, datasamples |-> << >>, sampletype |-> "",
     record |-> << >>, extra |-> << >>,
     record_handler |-> "None", record_handler_data |-> "None"]

\* MSTraceList.__init__(file_name=None, ..., split_version): the argument is
\* not stored; self.split_version is set to c_int8(0).
MSTraceList_init(split_version_arg) ==
    /\ mstl = mstl3_init
    /\ split_version = 0
    /\ parse_flags = {}
    /\ filenames = << >>
    /\ record_handler = "None"
    /\ record_handler_data = "None"
    /\ ret = Returned("__init__", << >>)
    /\ calls = << >>
    /\ requested = split_version_arg
    /\ offered = << >>
    /\ record_buffer = << >>
    /\ totals = << 0, 0 >>
    /\ packing = [params |-> {}, flushes |-> 0, last |-> << >>]

\* MSTraceList.numtraceids
numtraceids == mstl.numtraceids

\* trace IDs visited in creation order instead of along the links.
traceids_created(l) == [i \in 1..Len(l.traces) |-> i]

\* The node indices visited by MSTraceList.traceids(), in visiting order.
RECURSIVE FollowNext(_, _)
FollowNext(l, cur) ==
    IF cur = NULL THEN << >> ELSE << cur >> \o FollowNext(l, l.traces[cur].next)

traceids(l) == FollowNext(l, l.next0)

\* MSTraceList.sourceids()
sourceids(l) == [i \in 1..Len(traceids(l)) |-> l.traces[traceids(l)[i]].sid]

\* The record of add_data with its start time left at the default.
AddDataRecordNoStart(sourceid, data_samples, sample_type, sample_rate, start_time, publication_version) ==
    [sid         |-> sourceid,
     samprate    |-> sample_rate,
     pubversion  |-> publication_version,
     starttime   |-> 0,
     sampletype  |-> sample_type,
     numsamples  |-> Len(data_samples),
     samplecnt   |-> Len(data_samples),
     datasamples |-> data_samples]

\* The record of add_data with its sample count left at the default.
AddDataRecordNoCount(sourceid, data_samples, sample_type, sample_rate, start_time, publication_version) ==
    [sid         |-> sourceid,
     samprate    |-> sample_rate,
     pubversion  |-> publication_version,
     starttime   |-> start_time[1],
     sampletype  |-> sample_type,
     numsamples  |-> Len(data_samples),
     samplecnt   |-> 0,
     datasamples |-> data_samples]

\* MS3Record built by add_data from its arguments.
AddDataRecord(sourceid, data_samples, sample_type, sample_rate, start_time, publication_version) ==
    [sid         |-> sourceid,
     samprate    |-> sample_rate,
     pubversion  |-> publication_version,
     starttime   |-> start_time[1],
     sampletype  |-> sample_type,
     numsamples  |-> Len(data_samples),
     samplecnt   |-> Len(data_samples),
     datasamples |-> data_samples]

\* What an add_data call offers to the trace list, from its arguments.
Offer(sourceid, data_samples, sample_rate, start_time, publication_version) ==
    [sid |-> sourceid, pubversion |-> publication_version,
     starttime |-> start_time[1], samprate |-> sample_rate,
     samplecnt |-> Len(data_samples), datasamples |-> data_samples]

\* add_data that checks the sample type and the start time only after the
\* record was added to the trace list.
add_data_checked_late(sourceid, data_samples, sample_type, sample_rate, start_time, publication_version) ==
    /\ LET given == IF start_time = None THEN << 0 >> ELSE start_time
           msr   == AddDataRecord(sourceid, data_samples, sample_type,
                                  sample_rate, given, publication_version)
           r     == mstl3_addmsr_recordptr(mstl, msr, << >>, 0, 1)
       IN /\ mstl' = r.mstl
          /\ offered' = Append(offered,
                 [rec  |-> Offer(sourceid, data_samples, sample_rate, given,
                                 publication_version),
                  file |-> ""])
          /\ ret' = IF sample_type \notin SampleTypes \/ start_time = None
                    THEN Raised("add_data", "ValueError")
                    ELSE Returned("add_data", << >>)
    /\ UNCHANGED << msreader, args, stdout, split_version, parse_flags,
                    filenames, record_handler, record_handler_data, calls,
                    requested, record_buffer, totals, packing, ms3record >>

\* MSTraceList.add_data(sourceid, data_samples, sample_type, sample_rate,
\*                      start_time=..., publication_version=...)
add_data(sourceid, data_samples, sample_type, sample_rate, start_time, publication_version) ==
    /\ IF sample_type \notin SampleTypes \/ start_time = None
       THEN /\ ret' = Raised("add_data", "ValueError")
            /\ UNCHANGED << mstl, offered >>
       ELSE LET msr == AddDataRecord(sourceid, data_samples, sample_type,
                                     sample_rate, start_time, publication_version)
                r   == mstl3_addmsr_recordptr(mstl, msr, << >>, 0, 1)
            IN /\ mstl' = [r.mstl EXCEPT
                             !.traces[r.segptr[1]].segs[r.segptr[2]].updated =
                                 Len(offered) + 1]
               /\ offered' = Append(offered,
                      [rec  |-> Offer(sourceid, data_samples, sample_rate,
                                      start_time, publication_version),
                       file |-> ""])
               /\ ret' = Returned("add_data", << >>)
    /\ UNCHANGED << msreader, args, stdout, split_version, parse_flags, filenames, record_handler,
                    record_handler_data, calls, requested, record_buffer,
                    totals, packing, ms3record >>

\* MSTraceList.add_data when the library adds no segment: it returns a null
\* pointer and leaves the trace list as it was.  The pointer returned for
\* the result type POINTER(MS3TraceSeg) is a null pointer object, not None,
\* and reading the segment through it raises ValueError.
add_data_rejected(sourceid, data_samples, sample_type, sample_rate, start_time, publication_version) ==
    /\ ret' = Raised("add_data", "ValueError")
    /\ UNCHANGED << mstl, offered, msreader, args, stdout, split_version,
                    parse_flags, filenames, record_handler, record_handler_data,
                    calls, requested, record_buffer, totals, packing, ms3record >>

\* Parse flags that never ask for CRC validation.
ParseFlagsUnvalidated(unpack_data, record_list, skip_not_data, validate_crc) ==
    (IF unpack_data THEN { "MSF_UNPACKDATA" } ELSE {})
    \cup (IF record_list THEN { "MSF_RECORDLIST" } ELSE {})
    \cup (IF skip_not_data THEN { "MSF_SKIPNOTDATA" } ELSE {})

\* The parse flags read_file sets from its arguments.
ParseFlags(unpack_data, record_list, skip_not_data, validate_crc) ==
    (IF unpack_data THEN { "MSF_UNPACKDATA" } ELSE {})
    \cup (IF record_list THEN { "MSF_RECORDLIST" } ELSE {})
    \cup (IF skip_not_data THEN { "MSF_SKIPNOTDATA" } ELSE {})
    \cup (IF validate_crc THEN { "MSF_VALIDATECRC" } ELSE {})

\* The records of a file as they are offered to the trace list.
OfferedFrom(file_name, flags) ==
    [i \in 1..Len(FileRecords(file_name)) |->
        LET rec == FileRecords(file_name)[i]
        IN [rec  |-> [sid |-> rec.sid, pubversion |-> rec.pubversion,
                      starttime |-> rec.starttime, samprate |-> rec.samprate,
                      samplecnt |-> rec.samplecnt,
                      datasamples |-> IF "MSF_UNPACKDATA" \in flags
                                      THEN rec.payload ELSE << >>],
            file |-> file_name]]

\* The split flag read_file hands to the library.
ReadSplitVersion(self_split_version, split_version_arg) == self_split_version

\* MSTraceList.read_file(file_name, unpack_data, record_list, skip_not_data,
\*                       validate_crc, split_version)
read_file(file_name, unpack_data, record_list, skip_not_data, validate_crc, split_version_arg) ==
    LET flags == ParseFlags(unpack_data, record_list, skip_not_data, validate_crc)
        r     == ms3_readtracelist_selection(
                     mstl, file_name,
                     ReadSplitVersion(split_version, split_version_arg), flags)
    IN /\ filenames' = Append(filenames, file_name)
       /\ parse_flags' = flags
       /\ mstl' = r.mstl
       /\ requested' = (requested \/ split_version_arg)
       /\ offered' = offered \o SubSeq(OfferedFrom(file_name, flags), 1, r.added)
       /\ IF r.status = MS_NOERROR
          THEN ret' = Returned("read_file", << >>)
          ELSE ret' = [Raised("read_file", "MseedLibError") EXCEPT !.val = << r.status >>]
       /\ UNCHANGED << msreader, args, stdout, split_version, record_handler, record_handler_data, calls,
                       record_buffer, totals, packing, ms3record >>

\* MSTraceList.get_traceid(sourceid, version=0)
get_traceid(sourceid, version) ==
    LET traceid == mstl3_findID(mstl, sourceid, version)
    IN /\ ret' = CalledWith(IF traceid # NULL
                            THEN Returned("get_traceid", << traceid >>)
                            ELSE Raised("get_traceid", "NoSuchSourceID"),
                            << sourceid, version >>)
       /\ UNCHANGED << msreader, args, stdout, history, mstl, split_version, parse_flags, filenames, record_handler,
                       record_handler_data, calls, requested, offered,
                       record_buffer, totals, packing, ms3record >>

\* MSTraceList.sourceids()
list_sourceids ==
    /\ ret' = Returned("sourceids", sourceids(mstl))
    /\ UNCHANGED << msreader, args, stdout, history, mstl, split_version, parse_flags, filenames, record_handler,
                    record_handler_data, calls, requested, offered, record_buffer,
                    totals, packing, ms3record >>

\* unpack_recordlist that returns the decoded count and keeps no samples.
unpack_recordlist_discard(i, j, buffer_pointer) ==
    LET seg == mstl.traces[i].segs[j]
        r   == mstl3_unpack_recordlist(seg, buffer_pointer)
    IN /\ ret' = CalledWith(Returned("unpack_recordlist", << r.status >>),
                            << i, j >>)
       /\ seg.recordlist # << >>
       /\ UNCHANGED << msreader, args, stdout, mstl, split_version, parse_flags, filenames, record_handler,
                       record_handler_data, calls, requested, offered,
                       record_buffer, totals, packing, ms3record >>

\* MS3TraceSeg.unpack_recordlist(buffer_pointer) on segment j of trace ID i:
\* the recordlist property raises ValueError for a segment without record
\* list (a NULL pointer has no contents), a segment that holds samples is
\* already unpacked.
unpack_recordlist(i, j, buffer_pointer) ==
    LET seg == mstl.traces[i].segs[j]
        r   == mstl3_unpack_recordlist(seg, buffer_pointer)
    IN /\ IF seg.recordlist = << >> \/ seg.datasamples # << >>
          THEN /\ ret' = CalledWith(Raised("unpack_recordlist", "ValueError"),
                                     << i, j >>)
               /\ UNCHANGED mstl
          ELSE IF r.status < 0
          THEN /\ ret' = CalledWith(Raised("unpack_recordlist", "MseedLibError"),
                                     << i, j >>)
               /\ UNCHANGED mstl
          ELSE /\ ret' = CalledWith(Returned("unpack_recordlist", << r.status >>),
                                     << i, j >>)
               /\ mstl' = [mstl EXCEPT !.traces[i].segs[j] = r.seg]
       /\ UNCHANGED << msreader, args, stdout, split_version, parse_flags, filenames, record_handler,
                       record_handler_data, calls, requested, offered,
                       record_buffer, totals, packing, ms3record >>

\* np_datasamples that lets the segment allocate and keep the samples.
np_datasamples_owned(i, j) ==
    LET seg == mstl.traces[i].segs[j]
        r   == mstl3_unpack_recordlist(seg, << >>)
    IN /\ IF seg.recordlist = << >> \/ seg.datasamples # << >>
          THEN /\ ret' = CalledWith(Raised("np_datasamples", "ValueError"), << i, j >>)
               /\ UNCHANGED mstl
          ELSE /\ ret' = CalledWith(Returned("np_datasamples", r.output), << i, j >>)
               /\ mstl' = [mstl EXCEPT !.traces[i].segs[j] = r.seg]
       /\ UNCHANGED << msreader, args, stdout, split_version, parse_flags, filenames, record_handler,
                       record_handler_data, calls, requested, offered,
                       record_buffer, totals, packing, ms3record >>

\* MS3TraceSeg.np_datasamples on segment j of trace ID i: a new array of
\* samplecnt zeros is allocated and handed to unpack_recordlist as the
\* buffer to decode into; the array is returned.
np_datasamples(i, j) ==
    LET seg          == mstl.traces[i].segs[j]
        data_samples == [k \in 1..seg.samplecnt |-> 0]
        r            == mstl3_unpack_recordlist(seg, << data_samples >>)
    IN /\ IF seg.recordlist = << >>
          THEN /\ ret' = CalledWith(Raised("np_datasamples", "ValueError"), << i, j >>)
               /\ UNCHANGED mstl
          ELSE IF seg.datasamples # << >>
          THEN /\ ret' = CalledWith(Raised("np_datasamples", "ValueError"), << i, j >>)
               /\ UNCHANGED mstl
          ELSE IF r.status < 0
          THEN /\ ret' = CalledWith(Raised("np_datasamples", "MseedLibError"), << i, j >>)
               /\ UNCHANGED mstl
          ELSE /\ ret' = CalledWith(Returned("np_datasamples", r.output), << i, j >>)
               /\ mstl' = [mstl EXCEPT !.traces[i].segs[j] = r.seg]
       /\ UNCHANGED << msreader, args, stdout, split_version, parse_flags, filenames, record_handler,
                       record_handler_data, calls, requested, offered,
                       record_buffer, totals, packing, ms3record >>

\* A wrapper that hands the handler the handlerdata the library passes.
record_handler_wrapper_c(self_record_handler, self_record_handler_data, record, handlerdata) ==
    [handler     |-> self_record_handler,
     record      |-> record,
     handlerdata |-> handlerdata]

\* _record_handler_wrapper(record, record_length, handlerdata): one
\* invocation of the Python handler, [handler, record, handlerdata].
record_handler_wrapper(self_record_handler, self_record_handler_data, record, handlerdata) ==
    [handler     |-> self_record_handler,
     record      |-> record,
     handlerdata |-> self_record_handler_data]

\* PackFlags that never asks the library to flush.
PackFlagsNeverFlush(flush_data, format_version) ==
    IF format_version = 2 THEN { "MSF_PACKVER2" } ELSE {}

\* PackFlags that always asks the library to flush.
PackFlagsAlwaysFlush(flush_data, format_version) ==
    { "MSF_FLUSHDATA" } \cup (IF format_version = 2 THEN { "MSF_PACKVER2" } ELSE {})

\* The pack flags MSTraceList.pack sets from its arguments (format_version
\* 0 stands for None).
PackFlags(flush_data, format_version) ==
    (IF flush_data THEN { "MSF_FLUSHDATA" } ELSE {})
    \cup (IF format_version = 2 THEN { "MSF_PACKVER2" } ELSE {})

\* The handler invocations for a sequence of packed records.
Invocations(handler, handlerdata, records) ==
    [k \in 1..Len(records) |->
        record_handler_wrapper(handler, handlerdata, records[k], "None")]

\* The records a sequence of handler invocations received.
Received(invocations) == [k \in 1..Len(invocations) |-> invocations[k].record]

\* MSTraceList.pack(handler, handlerdata, flush_data, record_length,
\*                  encoding, format_version)
pack(handler, handlerdata, flush_data, record_length, encoding, format_version) ==
    \E flags \in { PackFlags(flush_data, format_version) } :
    \E r \in { mstl3_pack(mstl, record_length, encoding, flags) } :
       /\ record_handler' = handler
       /\ record_handler_data' = handlerdata
       /\ IF format_version # 0 /\ format_version \notin { 2, 3 }
          THEN /\ ret' = GivenTo(Raised("pack", "ValueError"), handler, handlerdata)
               /\ calls' = << >>
               /\ UNCHANGED << mstl, record_buffer, totals, packing >>
          ELSE /\ mstl' = r.mstl
               /\ calls' = Invocations(record_handler', record_handler_data',
                                       r.records)
               /\ record_buffer' = record_buffer \o Received(calls')
               /\ IF r.packedrecords < 0
                  THEN /\ ret' = GivenTo(Raised("pack", "MseedLibError"),
                                          handler, handlerdata)
                       /\ UNCHANGED << totals, packing >>
                  ELSE /\ ret' = GivenTo(Returned("pack", << r.packedsamples,
                                                             r.packedrecords >>),
                                          handler, handlerdata)
                       /\ totals' = << totals[1] + r.packedsamples,
                                       totals[2] + r.packedrecords >>
                       /\ packing' =
                            [params  |-> packing.params \cup
                                         { << record_length, encoding,
                                              "MSF_PACKVER2" \in flags >> },
                             flushes |-> IF flush_data
                                         THEN Min2(packing.flushes + 1, 2)
                                         ELSE packing.flushes,
                             last    |-> << flush_data, record_length,
                                            encoding >>]
       /\ UNCHANGED << msreader, args, stdout, history, split_version, parse_flags, filenames, requested, offered,
                       ms3record >>

----------------------------------------------------------------------------
(* The Python layer: util                                                  *)

\* sourceid2nslc(sourceid)
sourceid2nslc(sourceid) ==
    LET max_size == 11
        r        == ms_sid2nslc_n(sourceid, max_size)
    IN /\ IF r.status = 0
          THEN ret' = CalledWith(Returned("sourceid2nslc", r.nslc), << sourceid >>)
          ELSE ret' = CalledWith(Raised("sourceid2nslc", "ValueError"), << sourceid >>)
       /\ UNCHANGED << msreader, args, stdout, mstl, split_version, parse_flags, filenames, record_handler,
                       record_handler_data, calls, requested, offered, record_buffer,
                       totals, packing, ms3record >>

\* The size in bytes of the buffer nslc2sourceid creates for the identifier.
SourceIdBuffer == 21

\* The value of a character buffer of `size` bytes after the string and its
\* terminator were written from its first byte on: the characters before
\* the first terminator inside the buffer.
BufferValue(size, str) == SubSeq(str, 1, Min2(Len(str), size))

\* nslc2sourceid(net, sta, loc, chan): the library is told that the buffer
\* holds LM_SIDLEN + 1 bytes.  An identifier that with its terminator is
\* longer than the buffer is written past its end; the call then returns
\* the characters that are inside the buffer, or the process is stopped
\* over the memory written.
nslc2sourceid(net, sta, loc, chan) ==
    LET r == ms_nslc2sid(LM_SIDLEN + 1, net, sta, loc, chan)
    IN /\ IF r.status = -1
          THEN ret' = CalledWith(Raised("nslc2sourceid", "ValueError"),
                                 << net, sta, loc, chan >>)
          ELSE IF Len(r.sid) + 1 <= SourceIdBuffer
          THEN ret' = CalledWith(Returned("nslc2sourceid", << r.sid >>),
                                 << net, sta, loc, chan >>)
          ELSE \/ ret' = CalledWith(Returned("nslc2sourceid",
                                             << BufferValue(SourceIdBuffer, r.sid) >>),
                                    << net, sta, loc, chan >>)
               \/ ret' = CalledWith(Raised("nslc2sourceid", "abort"),
                                    << net, sta, loc, chan >>)
       /\ UNCHANGED << msreader, args, stdout, mstl, split_version, parse_flags, filenames, record_handler,
                       record_handler_data, calls, requested, offered, record_buffer,
                       totals, packing, ms3record >>

----------------------------------------------------------------------------
(* The Python layer: MS3Record                                             *)

\* The property setters of MS3Record that describe a record to pack, called
\* in the order reclen, sourceid, formatversion, encoding, starttime,
\* samprate; the formatversion setter raises ValueError for a value that is
\* neither 2 nor 3 and the later setters are then not reached.
MS3Record_set(reclen, formatversion, encoding, sourceid, starttime, samprate) ==
    /\ IF formatversion \notin { 2, 3 }
       THEN /\ ret' = Raised("MS3Record.set", "ValueError")
            /\ ms3record' = [ms3record EXCEPT !.reclen = reclen, !.sid = sourceid]
       ELSE /\ ret' = Returned("MS3Record.set", << >>)
            /\ ms3record' = [ms3record EXCEPT !.reclen = reclen,
                                  !.formatversion = formatversion,
                                  !.encoding = encoding,
                                  !.sid = sourceid,
                                  !.starttime = starttime,
                                  !.samprate = samprate]
    /\ UNCHANGED << msreader, args, stdout, history, mstl, split_version, parse_flags, filenames, record_handler,
                    record_handler_data, calls, requested, offered, record_buffer,
                    totals, packing >>

\* MS3Record.endtime that returns the time of the first sample.
MS3Record_endtime_first ==
    /\ ret' = Returned("endtime", << ms3record.starttime >>)
    /\ UNCHANGED << msreader, args, stdout, history, mstl, split_version, parse_flags, filenames, record_handler,
                    record_handler_data, calls, requested, offered, record_buffer,
                    totals, packing, ms3record >>

\* MS3Record.endtime
MS3Record_endtime ==
    /\ ret' = Returned("endtime", << msr3_endtime(ms3record) >>)
    /\ UNCHANGED << msreader, args, stdout, history, mstl, split_version, parse_flags, filenames, record_handler,
                    record_handler_data, calls, requested, offered, record_buffer,
                    totals, packing, ms3record >>

\* MS3Record.samprate that returns the stored value.
MS3Record_samprate_stored ==
    /\ ret' = Returned("samprate", << ms3record.samprate, 1 >>)
    /\ UNCHANGED << msreader, args, stdout, history, mstl, split_version, parse_flags, filenames, record_handler,
                    record_handler_data, calls, requested, offered, record_buffer,
                    totals, packing, ms3record >>

\* MS3Record.samprate: samples per second, as << numerator, denominator >>
MS3Record_samprate ==
    /\ ret' = Returned("samprate", << msr3_sampratehz(ms3record).num,
                                       msr3_sampratehz(ms3record).den >>)
    /\ UNCHANGED << msreader, args, stdout, history, mstl, split_version, parse_flags, filenames, record_handler,
                    record_handler_data, calls, requested, offered, record_buffer,
                    totals, packing, ms3record >>

\* MS3Record.samprate_raw
MS3Record_samprate_raw ==
    /\ ret' = Returned("samprate_raw", << ms3record.samprate >>)
    /\ UNCHANGED << msreader, args, stdout, history, mstl, split_version, parse_flags, filenames, record_handler,
                    record_handler_data, calls, requested, offered, record_buffer,
                    totals, packing, ms3record >>

\* The record structure msr3_pack sees while MS3Record.pack runs with the
\* given datasamples in place of the record's own.
WithSamples(record, datasamples, sampletype) ==
    [record EXCEPT !.datasamples = datasamples,
                   !.sampletype  = sampletype,
                   !.numsamples  = Len(datasamples),
                   !.samplecnt   = Len(datasamples)]

\* MS3Record.formatversion = value
MS3Record_set_formatversion(value) ==
    /\ IF value \notin { 2, 3 }
       THEN /\ ret' = Raised("MS3Record.formatversion", "ValueError")
            /\ UNCHANGED ms3record
       ELSE /\ ret' = Returned("MS3Record.formatversion", None)
            /\ ms3record' = [ms3record EXCEPT !.formatversion = value]
    /\ UNCHANGED << mstl, split_version, parse_flags, filenames, record_handler,
                    record_handler_data, calls, requested, offered, record_buffer,
                    totals, packing, args, stdout, msreader, history >>

\* MS3Record.extra = value, the value being JSON text
MS3Record_set_extra(value) ==
    /\ ret' = Returned("MS3Record.extra", None)
    /\ ms3record' = [ms3record EXCEPT !.extra = value]
    /\ UNCHANGED << mstl, split_version, parse_flags, filenames, record_handler,
                    record_handler_data, calls, requested, offered, record_buffer,
                    totals, packing, args, stdout, msreader, history >>

\* The first 6 bytes of a raw record: the sequence number of a version 2
\* record; a version 3 record starts with "MS" and binary header fields.
LeadingBytes(rec) ==
    IF rec.formatversion = 2 THEN rec.sequence
    ELSE << "M", "S", "\\3", "\\4", "\\0", "\\0" >>

\* int() accepts the string: decimal digits.
IsDecimal(str) == \A i \in 1..Len(str) : \E d \in 1..10 : Digits[d] = str[i]

\* int(sequence_string) of a string of decimal digits.
RECURSIVE IntOf(_)
IntOf(str) ==
    IF str = << >> THEN 0
    ELSE 10 * IntOf(SubSeq(str, 1, Len(str) - 1))
         + (CHOOSE d \in 0..9 : Digits[d + 1] = str[Len(str)])

\* The dictionary with `key` set to `value`.
Put(headers, key, value) ==
    [k \in DOMAIN headers \cup { key } |-> IF k = key THEN value ELSE headers[k]]

\* The extra headers replaced by the sequence number alone.
SequenceAlone(extra, sequence_number) ==
    [FDSN |-> [Sequence |-> sequence_number]]

\* Lines 523-529: extra_headers.setdefault("FDSN", {})["Sequence"] =
\* sequence_number when there are extra headers, {"FDSN": {"Sequence":
\* sequence_number}} when there are none.
WithSequence(extra, sequence_number) ==
    IF DOMAIN extra # {}
    THEN Put(extra, "FDSN",
             Put(IF HasKey(extra, "FDSN") THEN extra["FDSN"] ELSE << >>,
                 "Sequence", sequence_number))
    ELSE [FDSN |-> [Sequence |-> sequence_number]]

\* The sequence number is retained (line 518): the record is packed as
\* version 2 and has a raw record.
RetainsSequence(record) == record.formatversion = 2 /\ record.record # << >>

\* The record after lines 517-529, where int() returns.
SequenceRetained(record) ==
    IF RetainsSequence(record)
    THEN [record EXCEPT !.extra = WithSequence(@,
                            IntOf(SubSeq(LeadingBytes(record.record[1]), 1, 6)))]
    ELSE record

\* What msr3_pack returns when MS3Record.pack runs on `record`: all samples
\* are packed (MSF_FLUSHDATA), in the format version and up to the record
\* length of the record.
PackOf(record, datasamples, sampletype) ==
    LET flags  == { "MSF_FLUSHDATA" }
                  \cup (IF record.formatversion = 2 THEN { "MSF_PACKVER2" } ELSE {})
        reclen == IF record.reclen < 0 THEN DefaultRecordLength ELSE record.reclen
    IN msr3_pack(WithSamples(SequenceRetained(record), datasamples, sampletype),
                 reclen, record.encoding, flags)

\* MS3Record.pack(handler, handlerdata, datasamples, sampletype); the given
\* data samples stay in the record when int() raises.
MS3Record_pack(handler, handlerdata, datasamples, sampletype) ==
    LET r       == PackOf(ms3record, datasamples, sampletype)
        handled == [ms3record EXCEPT !.record_handler = handler,
                                     !.record_handler_data = handlerdata]
    IN /\ IF sampletype \notin SampleTypes
          THEN /\ ms3record' = handled
               /\ ret' = GivenTo(Raised("MS3Record.pack", "ValueError"),
                                  handler, handlerdata)
               /\ calls' = << >>
               /\ UNCHANGED record_buffer
          ELSE IF RetainsSequence(ms3record)
                  /\ ~IsDecimal(SubSeq(LeadingBytes(ms3record.record[1]), 1, 6))
          THEN /\ ms3record' = WithSamples(handled, datasamples, sampletype)
               /\ ret' = GivenTo(Raised("MS3Record.pack", "ValueError"),
                                  handler, handlerdata)
               /\ calls' = << >>
               /\ UNCHANGED record_buffer
          ELSE /\ ms3record' = SequenceRetained(handled)
               /\ calls' = Invocations(ms3record'.record_handler,
                                       ms3record'.record_handler_data, r.records)
               /\ record_buffer' = record_buffer \o Received(calls')
               /\ ret' = GivenTo(Returned("MS3Record.pack",
                                           << r.packedsamples, Len(r.records) >>),
                                  handler, handlerdata)
       /\ UNCHANGED << msreader, args, stdout, mstl, split_version, parse_flags, filenames, record_handler,
                       record_handler_data, requested, offered, totals, packing >>

----------------------------------------------------------------------------
(* The Python layer: MS3RecordReader                                       *)

\* MS3RecordReader(input, unpack_data, skip_not_data, validate_crc)
MS3RecordReader_init(input, unpack_data, skip_not_data, validate_crc) ==
    [reader      |-> "MS3RecordReader",
     input       |-> input,
     offset      |-> 0,
     parse_flags |-> (IF unpack_data THEN { "MSF_UNPACKDATA" } ELSE {})
                     \cup (IF skip_not_data THEN { "MSF_SKIPNOTDATA" } ELSE {})
                     \cup (IF validate_crc THEN { "MSF_VALIDATECRC" } ELSE {})]

\* The outcome of a read that raised MseedLibError(status, ...).
MseedLibError(op, status) == [Raised(op, "MseedLibError") EXCEPT !.val = << status >>]

\* MS3RecordReader.read(): the next record, None at the end of the input.
MS3RecordReader_read ==
    LET r == ms3_readmsr_selection(msreader.input, msreader.offset,
                                   msreader.parse_flags)
    IN /\ msreader # None
       /\ msreader.reader = "MS3RecordReader"
       /\ msreader' = [msreader EXCEPT !.offset = r.offset]
       /\ IF r.status = MS_NOERROR
          THEN /\ ms3record' = r.msr
               /\ ret' = Returned("read", << r.msr >>)
          ELSE IF r.status = MS_ENDOFFILE
          THEN /\ ret' = Returned("read", None)
               /\ UNCHANGED ms3record
          ELSE /\ ret' = MseedLibError("read", r.status)
               /\ UNCHANGED ms3record
       /\ UNCHANGED << mstl, split_version, parse_flags, filenames, record_handler,
                       record_handler_data, calls, requested, offered, record_buffer,
                       totals, packing, args, stdout >>

----------------------------------------------------------------------------
(* The Python layer: MSRecordBufferReader (src/mseedlib)                   *)

\* MSRecordBufferReader(source, unpack_data, validate_crc)
MSRecordBufferReader_init(source, unpack_data, validate_crc) ==
    [reader      |-> "MSRecordBufferReader",
     input       |-> source,
     offset      |-> 0,
     parse_flags |-> (IF unpack_data THEN { "MSF_UNPACKDATA" } ELSE {})
                     \cup (IF validate_crc THEN { "MSF_VALIDATECRC" } ELSE {})]

\* The bytes left below which read() does not look for a record.
MinimumBytes == 40

\* read() that leaves source_offset where it was.
MSRecordBufferReader_read_again ==
    LET remaining_bytes == RemainingBytes(msreader.input, msreader.offset)
        r == msr3_parse(msreader.input, msreader.offset, msreader.parse_flags)
    IN /\ msreader # None
       /\ msreader.reader = "MSRecordBufferReader"
       /\ IF remaining_bytes <= MinimumBytes
          THEN /\ ret' = Returned("read", None)
               /\ UNCHANGED << ms3record, msreader >>
          ELSE IF r.status = MS_NOERROR
          THEN /\ msreader' = msreader
               /\ ms3record' = r.msr
               /\ ret' = Returned("read", << r.msr >>)
          ELSE IF r.status > 0
          THEN /\ ret' = Returned("read", None)
               /\ UNCHANGED << ms3record, msreader >>
          ELSE /\ ret' = MseedLibError("read", r.status)
               /\ UNCHANGED << ms3record, msreader >>
       /\ UNCHANGED << mstl, split_version, parse_flags, filenames, record_handler,
                       record_handler_data, calls, requested, offered, record_buffer,
                       totals, packing, args, stdout >>

\* MSRecordBufferReader.read(): the next record of the buffer, or None.
MSRecordBufferReader_read ==
    LET remaining_bytes == RemainingBytes(msreader.input, msreader.offset)
        r == msr3_parse(msreader.input, msreader.offset, msreader.parse_flags)
    IN /\ msreader # None
       /\ msreader.reader = "MSRecordBufferReader"
       /\ IF remaining_bytes <= MinimumBytes
          THEN /\ ret' = Returned("read", None)
               /\ UNCHANGED << ms3record, msreader >>
          ELSE IF r.status = MS_NOERROR
          THEN /\ msreader' = [msreader EXCEPT !.offset = @ + 1]
               /\ ms3record' = r.msr
               /\ ret' = Returned("read", << r.msr >>)
          ELSE IF r.status > 0
          THEN /\ ret' = Returned("read", None)
               /\ UNCHANGED << ms3record, msreader >>
          ELSE /\ ret' = MseedLibError("read", r.status)
               /\ UNCHANGED << ms3record, msreader >>
       /\ UNCHANGED << mstl, split_version, parse_flags, filenames, record_handler,
                       record_handler_data, calls, requested, offered, record_buffer,
                       totals, packing, args, stdout >>

----------------------------------------------------------------------------
(* The time-window tool (examples/stream_timewindow.py).  Its global       *)
(* record_buffer holds the last record its handler was given.              *)

\* A command line time is absent (None) or << nstime >>; it counts as given
\* where the tool tests `args.earliest and ...`: when it is not None and
\* not 0.
Truthy(time) == time # None /\ time[1] # 0

\* int(1e9 / msr.samprate), the rate being in samples per second.
SamplePeriodNs(msr) ==
    (NSTMODULUS * msr3_sampratehz(msr).den) \div msr3_sampratehz(msr).num

\* Samples dropped by `while starttime <= earliest`.
RECURSIVE LeadingCountPast(_, _, _)
LeadingCountPast(starttime, earliest, sample_period_ns) ==
    IF starttime <= earliest
    THEN 1 + LeadingCountPast(starttime + sample_period_ns, earliest, sample_period_ns)
    ELSE 0

\* Samples dropped by `while starttime < earliest: starttime +=
\* sample_period_ns; count += 1`.
RECURSIVE LeadingCount(_, _, _)
LeadingCount(starttime, earliest, sample_period_ns) ==
    IF starttime < earliest
    THEN 1 + LeadingCount(starttime + sample_period_ns, earliest, sample_period_ns)
    ELSE 0

\* Samples dropped by `while endtime > latest: endtime -= sample_period_ns;
\* count += 1`.
RECURSIVE TrailingCount(_, _, _)
TrailingCount(endtime, latest, sample_period_ns) ==
    IF endtime > latest
    THEN 1 + TrailingCount(endtime - sample_period_ns, latest, sample_period_ns)
    ELSE 0

\* trim_record packing into records that hold one sample each.
trim_record_short(msr, earliest, latest, buffered) ==
    IF msr.samplecnt = 0 /\ msr.samprate = 0
    THEN [result |-> None, record_buffer |-> buffered, packed |-> << >>]
    ELSE LET parsed    == ParsedFrom(msr.record[1], { "MSF_UNPACKDATA", "MSF_VALIDATECRC" })
             endtime   == msr3_endtime(parsed)
             period    == SamplePeriodNs(parsed)
             leading   == Truthy(earliest) /\ parsed.starttime < earliest[1]
                             /\ earliest[1] <= endtime
             count     == IF leading
                          THEN LeadingCount(parsed.starttime, earliest[1], period)
                          ELSE 0
             starttime == parsed.starttime + count * period
             kept      == SubSeq(parsed.datasamples, count + 1, Len(parsed.datasamples))
             trailing  == Truthy(latest) /\ starttime <= latest[1] /\ latest[1] < endtime
             dropped   == IF trailing THEN TrailingCount(endtime, latest[1], period)
                          ELSE 0
             datasamples == SubSeq(kept, 1, Max2(0, Len(kept) - dropped))
             r         == PackOf([parsed EXCEPT !.starttime = starttime,
                                                !.reclen = HeaderLength + SampleSize(INT32)],
                                 datasamples,
                                 parsed.sampletype)
             after     == IF r.records = << >> THEN buffered
                          ELSE << r.records[Len(r.records)] >>
         IN [result |-> after, record_buffer |-> after, packed |-> r.records]

\* trim_record(msr, earliest, latest) with the global record_buffer as it
\* is at the call: [result, record_buffer, packed], the value returned
\* (None or the record buffer), the record buffer afterwards and the
\* records the handler was given.
trim_record(msr, earliest, latest, buffered) ==
    IF msr.samplecnt = 0 /\ msr.samprate = 0
    THEN [result |-> None, record_buffer |-> buffered, packed |-> << >>]
    ELSE LET parsed    == ParsedFrom(msr.record[1], { "MSF_UNPACKDATA", "MSF_VALIDATECRC" })
             endtime   == msr3_endtime(parsed)
             period    == SamplePeriodNs(parsed)
             leading   == Truthy(earliest) /\ parsed.starttime < earliest[1]
                             /\ earliest[1] <= endtime
             count     == IF leading
                          THEN LeadingCount(parsed.starttime, earliest[1], period)
                          ELSE 0
             starttime == parsed.starttime + count * period
             kept      == SubSeq(parsed.datasamples, count + 1, Len(parsed.datasamples))
             trailing  == Truthy(latest) /\ starttime <= latest[1] /\ latest[1] < endtime
             dropped   == IF trailing THEN TrailingCount(endtime, latest[1], period)
                          ELSE 0
             datasamples == SubSeq(kept, 1, Max2(0, Len(kept) - dropped))
             r         == PackOf([parsed EXCEPT !.starttime = starttime], datasamples,
                                 parsed.sampletype)
             after     == IF r.records = << >> THEN buffered
                          ELSE << r.records[Len(r.records)] >>
         IN [result |-> after, record_buffer |-> after, packed |-> r.records]

\* The record contains a selection time (lines 43-44).
ContainsSelection(msr, earliest, latest) ==
    \/ Truthy(earliest) /\ msr.starttime < earliest[1]
          /\ earliest[1] <= msr3_endtime(msr)
    \/ Truthy(latest) /\ msr.starttime <= latest[1]
          /\ latest[1] < msr3_endtime(msr)

\* repacked_record that starts out as the global record buffer.
RepackedRecordStale(msr, earliest, latest, buffered) ==
    IF ContainsSelection(msr, earliest, latest)
    THEN trim_record(msr, earliest, latest, buffered)
    ELSE [result |-> buffered, record_buffer |-> buffered, packed |-> << >>]

\* repacked_record (lines 40-45): None, or what trim_record returns for a
\* record that contains a selection time.
RepackedRecord(msr, earliest, latest, buffered) ==
    IF ContainsSelection(msr, earliest, latest)
    THEN trim_record(msr, earliest, latest, buffered)
    ELSE [result |-> None, record_buffer |-> buffered, packed |-> << >>]

\* What one pass of the loop of process_stream did with a record.
Processed(msr, written, trimmed, packed) ==
    [msr |-> msr, written |-> written, trimmed |-> trimmed, packed |-> packed]

\* records_written and bytes_written of process_stream so far: 0 as the
\* loop is entered, then the values after the last pass.
Counters(outcome) ==
    IF outcome.op = "process_stream" THEN outcome.val ELSE << 0, 0 >>

\* process_stream: one pass of the loop over the records of standard input;
\* the value kept is << records_written, bytes_written >>.
process_stream ==
    LET r        == ms3_readmsr_selection(msreader.input, msreader.offset,
                                          msreader.parse_flags)
        msr      == r.msr
        repacked == RepackedRecord(msr, args.earliest, args.latest, record_buffer)
        written  == IF repacked.result # << >> THEN repacked.result ELSE msr.record
    IN /\ msreader # None
       /\ args # None
       /\ r.status = MS_NOERROR
       /\ msreader' = [msreader EXCEPT !.offset = r.offset]
       /\ ms3record' = msr
       /\ IF \/ Truthy(args.earliest) /\ msr3_endtime(msr) < args.earliest[1]
             \/ Truthy(args.latest) /\ msr.starttime > args.latest[1]
          THEN /\ UNCHANGED << stdout, record_buffer >>
               /\ history' = Append(history, Processed(msr, << >>, FALSE, << >>))
               /\ ret' = Returned("process_stream", Counters(ret))
          ELSE /\ record_buffer' = repacked.record_buffer
               /\ ret' = Returned("process_stream",
                                  << Counters(ret)[1] + 1,
                                     Counters(ret)[2] + msr.reclen >>)
               /\ stdout' = stdout \o written
               /\ history' = Append(history,
                                Processed(msr, written,
                                          ContainsSelection(msr, args.earliest,
                                                            args.latest),
                                          repacked.packed))
       /\ UNCHANGED << mstl, split_version, parse_flags, filenames, record_handler,
                       record_handler_data, calls, requested, offered, totals,
                       packing, args >>

----------------------------------------------------------------------------
(* Inputs and specifications                                               *)

\* Number of records offered through add_data so far.
RECURSIVE CountAdded(_)
CountAdded(recs) ==
    IF recs = << >> THEN 0
    ELSE (IF Head(recs).file = "" THEN 1 ELSE 0) + CountAdded(Tail(recs))

\* Number of samples offered so far.
RECURSIVE CountSamples(_)
CountSamples(recs) ==
    IF recs = << >> THEN 0 ELSE Head(recs).rec.samplecnt + CountSamples(Tail(recs))

\* n samples never offered before: every sample value identifies one sample.
FreshSamples(n) == [k \in 1..n |-> CountSamples(offered) + k]

\* The start time that continues the last record offered for a sourceid:
\* sampletime(start_time, len(data), sample_rate), or 0 for the first record.
RECURSIVE NextStart(_, _)
NextStart(recs, sourceid) ==
    IF recs = << >> THEN 0
    ELSE LET last == recs[Len(recs)].rec
         IN IF last.sid = sourceid
            THEN ms_sampletime(last.starttime, last.samplecnt, last.samprate)
            ELSE NextStart(SubSeq(recs, 1, Len(recs) - 1), sourceid)

CanAdd == CountAdded(offered) < MaxRecords

CanRead == Len(filenames) < MaxFiles

HandlerData == { "fhA", "fhB" }

\* Record lengths holding 2 and 3 int32 samples.
RecordLengths == { HeaderLength + 2 * SampleSize(INT32), HeaderLength + 3 * SampleSize(INT32) }

\* The streaming packer: contiguous or gapped additions to two channels,
\* interleaved with pack calls.
AddStreamed ==
    \E sourceid \in 1..2, n \in 1..MaxSamples, gap \in BOOLEAN :
        LET start == NextStart(offered, sourceid)
        IN /\ CanAdd
           /\ gap => (sourceid = 1 /\ start < NSTMODULUS)
           /\ add_data(sourceid, FreshSamples(n), "i", RateA,
                       << IF gap THEN start + NSTMODULUS ELSE start >>, 1)
           /\ UNCHANGED history

\* The caller packs with the parameters of its first pack call.
SameParameters(record_length, encoding, format_version) ==
    \/ packing.params = {}
    \/ << record_length, encoding, format_version = 2 >> \in packing.params

PackStreamed ==
    \E flush_data \in BOOLEAN, record_length \in RecordLengths,
       format_version \in { 0, 2 } :
        /\ SameParameters(record_length, INT32, format_version)
        /\ pack("record_handler", "fhA", flush_data, record_length, INT32,
                format_version)

\* A pack call with a format version that is neither 2 nor 3.
PackInvalid ==
    \E flush_data \in BOOLEAN :
        pack("record_handler", "fhA", flush_data, DefaultRecordLength, INT32, 4)

\* A record as constructed, no record reader and no time-window tool:
\* nothing to read, nothing written.
NoReader ==
    /\ ms3record = MS3Record_init
    /\ msreader = None
    /\ args = None
    /\ stdout = << >>
    /\ history = << >>

InitPack == MSTraceList_init(FALSE) /\ NoReader

NextPack == AddStreamed \/ PackStreamed \/ PackInvalid

SpecPack == InitPack /\ [][NextPack]_vars

----------------------------------------------------------------------------
(* Streaming packer: chunked packing and sample conservation               *)

\* The record structure of an offered record.
AsRecord(rec) ==
    [sid |-> rec.sid, pubversion |-> rec.pubversion, starttime |-> rec.starttime,
     samprate |-> rec.samprate, samplecnt |-> rec.samplecnt,
     datasamples |-> rec.datasamples, numsamples |-> Len(rec.datasamples),
     sampletype |-> "i"]

\* The trace list that holds a sequence of offered records and nothing else.
RECURSIVE AddAll(_, _)
AddAll(l, recs) ==
    IF recs = << >> THEN l
    ELSE AddAll(mstl3_addmsr_recordptr(l, AsRecord(Head(recs).rec), << >>, 0, 1).mstl,
                Tail(recs))

\* One flushing pack call over all the data offered so far.
SinglePack(recs, record_length, encoding, packver2) ==
    mstl3_pack(AddAll(mstl3_init, recs), record_length, encoding,
               { "MSF_FLUSHDATA" } \cup (IF packver2 THEN { "MSF_PACKVER2" } ELSE {}))

\* The records of one channel, in the order they were emitted.
OfChannel(records, sid) == SelectSeq(records, LAMBDA rec : rec.sid = sid)

\* Every record offered for a channel starts where the previous one ended.
RECURSIVE Contiguous(_)
Contiguous(recs) ==
    \/ recs = << >>
    \/ /\ recs[Len(recs)].rec.starttime =
            NextStart(SubSeq(recs, 1, Len(recs) - 1), recs[Len(recs)].rec.sid)
       /\ Contiguous(SubSeq(recs, 1, Len(recs) - 1))

\* Samples still held by the segments of the trace list.
BufferedIn(segs) == SumSeq([j \in 1..Len(segs) |-> Len(segs[j].datasamples)])

Buffered(l) == SumSeq([i \in 1..Len(l.traces) |-> BufferedIn(l.traces[i].segs)])

\* The last call was a pack call that returned.
PackReturned == ret.op = "pack" /\ ret.raised = ""

\* A chunked sequence has just ended: the one flushing pack call returned,
\* after contiguous additions and pack calls with one set of parameters.
ChunkedDone ==
    /\ PackReturned
    /\ packing.flushes = 1
    /\ packing.last[1]
    /\ Cardinality(packing.params) = 1
    /\ Contiguous(offered)

\* C1: packing contiguous data in chunks (pack calls with flush_data=False
\* interleaved with additions, then one call with flush_data=True) yields the
\* same total sample count, the same total record count and, per channel,
\* the same record bytes in the same order as one flushing pack call over
\* all the data with the same record length, encoding and format version.
ChunkedPackingEquivalence ==
    ChunkedDone =>
        LET p      == CHOOSE q \in packing.params : TRUE
            single == SinglePack(offered, p[1], p[2], p[3])
        IN /\ totals[1] = single.packedsamples
           /\ totals[2] = single.packedrecords
           /\ \A sid \in SourceIds :
                 OfChannel(record_buffer, sid) = OfChannel(single.records, sid)

\* A chunked sequence where an earlier pack call emitted records, data was
\* added to two channels and the flushing call emitted the remainder.
ChunkedPackingWitness ==
    /\ ChunkedDone
    /\ calls # << >>
    /\ Len(record_buffer) > Len(calls)
    /\ Len(offered) = MaxRecords
    /\ \E i, j \in 1..Len(offered) : offered[i].rec.sid # offered[j].rec.sid
    /\ \E k \in 1..Len(calls) :
          calls[k].record.samplecnt < RecordCapacity(packing.last[2], packing.last[3])

\* C2: the samples added equal the samples reported packed plus the samples
\* still buffered; a pack call with flush_data=False emits only full
\* records; after a pack call with flush_data=True nothing is buffered.
SampleConservation ==
    /\ CountSamples(offered) = totals[1] + Buffered(mstl)
    /\ totals[1] = SamplesIn(record_buffer)
    /\ (PackReturned /\ ~packing.last[1]) =>
           \A k \in 1..Len(calls) :
               calls[k].record.samplecnt =
                   RecordCapacity(packing.last[2], packing.last[3])
    /\ (PackReturned /\ packing.last[1]) => Buffered(mstl) = 0

\* A pack call without flush emitted full records and left a remainder
\* buffered, after an earlier flushing call.
SampleConservationWitness ==
    /\ PackReturned
    /\ ~packing.last[1]
    /\ packing.flushes > 0
    /\ calls # << >>
    /\ Buffered(mstl) > 0
    /\ totals[1] > SamplesIn(Received(calls))

----------------------------------------------------------------------------
(* Record handlers                                                         *)

Handlers == { "record_handler", "write" }

\* A program packs either through an MS3Record, described and then packed
\* with its own samples replaced by the datasamples argument, or through a
\* trace list that data is added to.
UsesRecord == ms3record # MS3Record_init

UsesTraceList == offered # << >>

DescribeRecord ==
    \E reclen \in { HeaderLength + 2 * SampleSize(INT32), -1 },
       formatversion \in { 2, 3, 4 } :
        /\ ~UsesTraceList
        /\ MS3Record_set(reclen, formatversion, INT32, 1, 0, RateA)

Described == ms3record.formatversion \in { 2, 3 }

PackRecord ==
    \E handler \in Handlers, handlerdata \in HandlerData,
       n \in { MaxSamples, 2 * MaxSamples + 1 }, sampletype \in { "i", "x" } :
        /\ Described
        /\ Len(record_buffer) < MaxRecords
        /\ MS3Record_pack(handler, handlerdata, [k \in 1..n |-> k], sampletype)
        /\ UNCHANGED history

AddHandled ==
    \E n \in 1..MaxSamples :
        /\ CanAdd
        /\ ~UsesRecord
        /\ add_data(1, FreshSamples(n), "i", RateA, << NextStart(offered, 1) >>, 1)
        /\ UNCHANGED history

PackHandled ==
    \E handlerdata \in HandlerData, flush_data \in BOOLEAN,
       format_version \in { 0, 4 } :
        /\ mstl.numtraceids > 0
        /\ pack("record_handler", handlerdata, flush_data,
                HeaderLength + 2 * SampleSize(INT32), INT32, format_version)

NextHandler == DescribeRecord \/ PackRecord \/ AddHandled \/ PackHandled

SpecHandler == InitPack /\ [][NextHandler]_vars

\* The last call was a pack call, of an MS3Record or of a trace list, that
\* returned.
AnyPackReturned == ret.op \in { "pack", "MS3Record.pack" } /\ ret.raised = ""

\* The sample values of a sequence of records, in order.
SampleValues(records) == Flatten([k \in 1..Len(records) |-> records[k].data])

\* C3: a pack call invokes the handler once per emitted record, in emission
\* order and before it returns; the packed_records it returns equals the
\* number of invocations, and every invocation receives the handler's
\* handlerdata of that call.
HandlerInvokedPerRecord ==
    AnyPackReturned =>
        /\ Len(calls) = ret.val[2]
        /\ SamplesIn(Received(calls)) = ret.val[1]
        /\ \A k \in 1..Len(calls) :
              /\ calls[k].handler = ret.handler
              /\ calls[k].handlerdata = ret.handlerdata
              /\ calls[k].record.samplecnt > 0
        /\ \A k \in 1..(Len(calls) - 1) :
              calls[k].record.starttime < calls[k + 1].record.starttime
        /\ \A k \in 1..(Len(SampleValues(Received(calls))) - 1) :
              SampleValues(Received(calls))[k] < SampleValues(Received(calls))[k + 1]
        /\ Len(record_buffer) >= Len(calls)
        /\ SubSeq(record_buffer, Len(record_buffer) - Len(calls) + 1,
                  Len(record_buffer)) = Received(calls)

\* A pack call emitted several records to a handler whose handlerdata
\* differs from the one of the pack call before it.
HandlerInvokedWitness ==
    /\ AnyPackReturned
    /\ Len(calls) >= 2
    /\ Len(record_buffer) > Len(calls)
    /\ \/ /\ ret.op = "pack"
          /\ record_buffer[Len(record_buffer) - Len(calls)].sid = 1
       \/ ret.op = "MS3Record.pack"
    /\ ret.handlerdata = "fhB"

----------------------------------------------------------------------------
(* Segment assembly                                                        *)

\* Records are added to one channel, continuing the last record offered,
\* after a gap of one second, slightly late or back at time 0; a file is
\* read; record lists are unpacked; the trace list is packed.
StartTimes(sourceid) ==
    LET start == NextStart(offered, sourceid)
    IN { start, start + 1, 0 }
       \cup (IF start < NSTMODULUS THEN { start + NSTMODULUS } ELSE {})

\* Additions and file reads made so far.
Steps == CountAdded(offered) + Len(filenames)

AddAssembled ==
    \E n \in 1..MaxSamples, sample_rate \in { RateA, RateB },
       start_time \in StartTimes(1) :
        /\ Steps < MaxRecords
        /\ sample_rate = RateB => (n = 1 /\ start_time = NextStart(offered, 1))
        /\ record_buffer = << >>
        /\ add_data(1, FreshSamples(n), "i", sample_rate, << start_time >>, 1)
        /\ UNCHANGED history

FileNames == { "versions.mseed3", "NOSUCHFILE" }

ReadAssembled ==
    \E file_name \in FileNames, unpack_data \in BOOLEAN, record_list \in BOOLEAN :
        /\ CanRead
        /\ Steps < MaxRecords
        /\ file_name = "NOSUCHFILE" => (~unpack_data /\ ~record_list)
        /\ record_buffer = << >>
        /\ read_file(file_name, unpack_data, record_list, FALSE, TRUE, FALSE)
        /\ UNCHANGED history

UnpackAssembled ==
    \E i \in 1..Len(mstl.traces) :
        \E j \in 1..Len(mstl.traces[i].segs) :
            /\ record_buffer = << >>
            /\ unpack_recordlist(i, j, None)
            /\ UNCHANGED history

PackAssembled ==
    \E flush_data \in BOOLEAN :
        /\ mstl.numtraceids > 0
        /\ pack("record_handler", "fhA", flush_data,
                HeaderLength + 2 * SampleSize(INT32), INT32, 0)

NextAsm == AddAssembled \/ ReadAssembled \/ UnpackAssembled \/ PackAssembled

SpecAsm == InitPack /\ [][NextAsm]_vars

\* The records offered for a channel, in order.
OfferedFor(sid) == SelectSeq(offered, LAMBDA o : o.rec.sid = sid)

\* The segments of a channel, in list order (none when it has no trace ID).
SegsOf(sid) ==
    LET at == mstl3_findID(mstl, sid, 0)
    IN IF at = NULL THEN << >> ELSE mstl.traces[at].segs

\* Two records were added to an empty trace list for one channel with one
\* sample rate, and nothing else was done.
TwoAdded ==
    /\ Len(offered) = 2
    /\ offered[1].file = "" /\ offered[2].file = ""
    /\ offered[1].rec.sid = offered[2].rec.sid
    /\ offered[1].rec.samprate = offered[2].rec.samprate
    /\ record_buffer = << >>

\* The second record starts one sample period after the first one ends,
\* plus `gap`.
SecondFollows(gap) ==
    offered[2].rec.starttime =
        msr3_endtime(offered[1].rec) + SamplePeriod(offered[1].rec.samprate) + gap

\* C4: two records added for one sourceid with one sample rate, the second
\* starting one sample period after the end of the first, make exactly one
\* segment whose sample count is the sum of both and whose end time is the
\* end time of the second; with a gap of one second they make two segments.
SegmentAssemblyByContinuity ==
    TwoAdded =>
        LET segs == SegsOf(offered[1].rec.sid)
        IN /\ SecondFollows(0) =>
                /\ Len(segs) = 1
                /\ mstl.traces[mstl3_findID(mstl, offered[1].rec.sid, 0)].numsegments = 1
                /\ segs[1].samplecnt =
                       offered[1].rec.samplecnt + offered[2].rec.samplecnt
                /\ segs[1].starttime = offered[1].rec.starttime
                /\ segs[1].endtime = msr3_endtime(offered[2].rec)
                /\ segs[1].datasamples =
                       offered[1].rec.datasamples \o offered[2].rec.datasamples
           /\ SecondFollows(NSTMODULUS) =>
                /\ Len(segs) = 2
                /\ \A k \in 1..2 :
                      /\ segs[k].samplecnt = offered[k].rec.samplecnt
                      /\ segs[k].starttime = offered[k].rec.starttime
                      /\ segs[k].endtime = msr3_endtime(offered[k].rec)

\* Two contiguous records of different lengths, the first not at time 0,
\* were merged into one segment.
SegmentAssemblyWitness ==
    /\ TwoAdded
    /\ SecondFollows(0)
    /\ offered[1].rec.samplecnt # offered[2].rec.samplecnt
    /\ offered[1].rec.starttime > 0
    /\ Len(SegsOf(offered[1].rec.sid)) = 1

\* All sample values of a sequence of segments, in order.
SamplesOf(segs) == Flatten([j \in 1..Len(segs) |-> segs[j].datasamples])

\* All samples offered for a channel, in order.
OfferedSamples(sid) ==
    Flatten([k \in 1..Len(OfferedFor(sid)) |-> OfferedFor(sid)[k].rec.datasamples])

\* Number of positions of a sequence that hold the value.
Occurrences(seq, v) == Cardinality({ k \in 1..Len(seq) : seq[k] = v })

\* Some record was offered that starts before the end of the last segment
\* its channel had at that time.
RECURSIVE OutOfOrder(_)
OutOfOrder(recs) ==
    /\ recs # << >>
    /\ LET before == SubSeq(recs, 1, Len(recs) - 1)
           last   == recs[Len(recs)].rec
           l      == AddAll(mstl3_init, before)
           at     == mstl3_findID(l, last.sid, 0)
       IN \/ /\ at # NULL
             /\ last.starttime < l.traces[at].segs[Len(l.traces[at].segs)].endtime
          \/ OutOfOrder(before)

\* C5: additions never overwrite data, whatever their order of arrival: as
\* long as nothing is packed, every sample offered for a channel is held
\* by its segments as often as it was offered, the sample counts of the
\* segments add up to the sample counts of the records offered, and
\* add_data raises nothing.
OutOfOrderNeverOverwrites ==
    /\ ret.op = "add_data" => ret.raised = ""
    /\ record_buffer = << >> =>
         \A sid \in SourceIds :
            /\ SumSeq([j \in 1..Len(SegsOf(sid)) |-> SegsOf(sid)[j].samplecnt])
                 = SumSeq([k \in 1..Len(OfferedFor(sid)) |->
                              OfferedFor(sid)[k].rec.samplecnt])
            /\ \A k \in 1..Len(OfferedSamples(sid)) :
                  Occurrences(SamplesOf(SegsOf(sid)), OfferedSamples(sid)[k])
                     >= Occurrences(OfferedSamples(sid), OfferedSamples(sid)[k])

\* A record that starts before the end of the channel's last segment was
\* added and became a segment of its own.
OutOfOrderWitness ==
    /\ ret.op = "add_data"
    /\ record_buffer = << >>
    /\ OutOfOrder(offered)
    /\ Len(offered) = MaxRecords
    /\ Len(SegsOf(1)) >= 2
    /\ offered[Len(offered)].rec.starttime < SegsOf(1)[1].endtime

\* The least and the greatest of a non-empty sequence of times.
MinOf(times) == CHOOSE t \in { times[k] : k \in 1..Len(times) } :
                    \A k \in 1..Len(times) : t <= times[k]

MaxOf(times) == CHOOSE t \in { times[k] : k \in 1..Len(times) } :
                    \A k \in 1..Len(times) : t >= times[k]

\* The trace ID summarises its segments: earliest and latest are the least
\* start and the greatest end, the segments are in order of start time and
\* numsegments is their number.
SummarisesSegments(id) ==
    /\ id.earliest = MinOf([j \in 1..Len(id.segs) |-> id.segs[j].starttime])
    /\ id.latest = MaxOf([j \in 1..Len(id.segs) |-> id.segs[j].endtime])
    /\ \A j \in 1..(Len(id.segs) - 1) :
          id.segs[j].starttime <= id.segs[j + 1].starttime
    /\ id.numsegments = Len(id.segs)

HasSamples(seg) == seg.datasamples # << >>

\* The record reference list of a segment is populated.
HasRecordList(seg) == seg.recordlist # << >>

\* All segments of the trace list.
Segments ==
    UNION { { mstl.traces[i].segs[j] : j \in 1..Len(mstl.traces[i].segs) } :
            i \in 1..Len(mstl.traces) }

OnlyRead ==
    /\ Len(filenames) = 1
    /\ CountAdded(offered) = 0
    /\ ret.op = "read_file"
    /\ ret.raised = ""

----------------------------------------------------------------------------
(* The trace index                                                         *)

PublicationVersions == { 1, 2 }

\* A trace list is constructed with or without split_version; records of
\* three channels in two publication versions are added in any order, a
\* file is read, trace IDs are looked up and the source IDs are listed.
InitIndex == NoReader /\ \E split_version_arg \in BOOLEAN : MSTraceList_init(split_version_arg)

AddIndexed ==
    \E sourceid \in SourceIds, publication_version \in PublicationVersions :
        /\ Steps < MaxRecords
        /\ add_data(sourceid, FreshSamples(1), "i", RateA,
                    << NextStart(offered, sourceid) >>, publication_version)
        /\ UNCHANGED history

ReadIndexed ==
    \E file_name \in FileNames, split_version_arg \in BOOLEAN :
        /\ CanRead
        /\ Steps < MaxRecords
        /\ read_file(file_name, TRUE, FALSE, FALSE, TRUE, split_version_arg)
        /\ UNCHANGED history

LookUp ==
    \E sourceid \in SourceIds, version \in { 0 } \cup PublicationVersions :
        get_traceid(sourceid, version)

NextIndex == AddIndexed \/ ReadIndexed \/ LookUp \/ list_sourceids

SpecIndex == InitIndex /\ [][NextIndex]_vars

\* The keys inserted so far: sourceids, or sourceids with publication
\* versions when version splitting was asked for.
SourceIdsInserted == { offered[k].rec.sid : k \in 1..Len(offered) }

VersionsInserted ==
    { << offered[k].rec.sid, offered[k].rec.pubversion >> : k \in 1..Len(offered) }

\* A lookup the keys decide: by sourceid alone (version 0), or by sourceid
\* and publication version when the keys hold versions.
KeyedLookUp == ret.op = "get_traceid" /\ (requested \/ ret.args[2] = 0)

\* C6: numtraceids is the number of distinct keys inserted, and
\* get_traceid(sourceid, version) returns the entry of a key that was
\* inserted and raises NoSuchSourceID for a key that never was.
IdempotentGetOrCreate ==
    /\ numtraceids = IF requested THEN Cardinality(VersionsInserted)
                     ELSE Cardinality(SourceIdsInserted)
    /\ KeyedLookUp =>
         LET inserted == IF ret.args[2] = 0
                         THEN ret.args[1] \in SourceIdsInserted
                         ELSE << ret.args[1], ret.args[2] >> \in VersionsInserted
         IN /\ inserted <=> ret.raised = ""
            /\ ~inserted <=> ret.raised = "NoSuchSourceID"
            /\ inserted =>
                  /\ mstl.traces[ret.val[1]].sid = ret.args[1]
                  /\ ret.args[2] # 0 =>
                        mstl.traces[ret.val[1]].pubversion = ret.args[2]

\* (sourceid, publication version) of one trace ID sorts before the other's.
SortsBefore(a, b) ==
    \/ a.sid < b.sid
    \/ a.sid = b.sid /\ a.pubversion < b.pubversion

\* C7: traceids(), and so sourceids(), visits every trace ID exactly once,
\* in lexicographic order of sourceid and then publication version,
\* whatever the order in which the channels were inserted.
InOrderTraversal ==
    LET visited == traceids(mstl)
    IN /\ Len(visited) = numtraceids
       /\ \A i \in 1..Len(mstl.traces) : Occurrences(visited, i) = 1
       /\ \A k \in 1..(Len(visited) - 1) :
             SortsBefore(mstl.traces[visited[k]], mstl.traces[visited[k + 1]])
       /\ { mstl.traces[visited[k]].sid : k \in 1..Len(visited) } = SourceIdsInserted
       /\ ret.op = "sourceids" =>
             /\ Len(ret.val) = numtraceids
             /\ \A k \in 1..Len(ret.val) : ret.val[k] = mstl.traces[visited[k]].sid
             /\ \A k \in 1..(Len(ret.val) - 1) : ret.val[k] < ret.val[k + 1]

\* Three channels inserted in an order that is not the sorted one were
\* listed.
InOrderTraversalWitness ==
    /\ ret.op = "sourceids"
    /\ Len(ret.val) = Len(SID)
    /\ mstl.traces[1].sid > mstl.traces[2].sid
    /\ mstl.traces[2].sid < mstl.traces[3].sid

\* C8: with split_version enabled at construction or at a file read,
\* records of one sourceid with different publication versions are kept in
\* distinct trace IDs keyed by (sourceid, publication version); when it is
\* disabled they share one trace ID keyed by sourceid.
VersionSplitting ==
    IF requested
    THEN /\ numtraceids = Cardinality(VersionsInserted)
         /\ \A key \in VersionsInserted :
               \E i \in 1..Len(mstl.traces) :
                  mstl.traces[i].sid = key[1] /\ mstl.traces[i].pubversion = key[2]
    ELSE numtraceids = Cardinality(SourceIdsInserted)

----------------------------------------------------------------------------
(* Deferred decoding                                                       *)

\* A file is read once with any combination of unpack_data and record_list;
\* then the segments are unpacked through unpack_recordlist() and through
\* np_datasamples, in any order, any number of times up to MaxCalls.  Each
\* request is logged with the segment as it was before and after the call.
Logged(outcome, before, after) ==
    [op |-> outcome.op, raised |-> outcome.raised, val |-> outcome.val,
     args |-> outcome.args, before |-> before, after |-> after]

ReadDeferred ==
    \E unpack_data \in BOOLEAN, record_list \in BOOLEAN :
        /\ filenames = << >>
        /\ read_file("versions.mseed3", unpack_data, record_list, FALSE, TRUE, FALSE)
        /\ UNCHANGED history

UnpackDeferred ==
    \E i \in 1..Len(mstl.traces) :
        \E j \in 1..Len(mstl.traces[i].segs) :
            /\ Len(history) < MaxCalls
            /\ unpack_recordlist(i, j, None)
            /\ history' = Append(history, Logged(ret', mstl.traces[i].segs[j],
                                                 mstl'.traces[i].segs[j]))

NumpyDeferred ==
    \E i \in 1..Len(mstl.traces) :
        \E j \in 1..Len(mstl.traces[i].segs) :
            /\ Len(history) < MaxCalls
            /\ np_datasamples(i, j)
            /\ history' = Append(history, Logged(ret', mstl.traces[i].segs[j],
                                                 mstl'.traces[i].segs[j]))

NextDeferred == ReadDeferred \/ UnpackDeferred \/ NumpyDeferred

SpecDeferred == InitPack /\ [][NextDeferred]_vars

\* An unpack request: unpack_recordlist() or an access to np_datasamples.
UnpackRequest(e) == e.op \in { "unpack_recordlist", "np_datasamples" }

\* C11 as stated: the first unpack of a segment with a record list succeeds
\* and returns the number of samples decoded; every later unpack request on
\* the same segment, unpack_recordlist again or a second access to
\* np_datasamples, is rejected and leaves the samples of the segment
\* unchanged; an unpack of a segment without record list raises ValueError.
DeferredDecodeOneShot ==
    \A m \in 1..Len(history) :
        LET e == history[m]
        IN /\ ~HasRecordList(e.before) => e.raised = "ValueError"
           /\ \A k \in 1..(m - 1) :
                 (history[k].args = e.args /\ history[k].raised = "")
                    => /\ e.raised = "ValueError"
                       /\ e.after.datasamples = e.before.datasamples

\* C11, amended: what is one-shot is the decode into a buffer the segment
\* owns.  unpack_recordlist() on a segment with a record list and no samples
\* returns the number of samples decoded, samplecnt, and the segment holds
\* them from then on; every unpack request on a segment that holds samples
\* raises ValueError and leaves the segment as it was; an access to
\* np_datasamples on a segment with a record list and no samples returns
\* all samplecnt samples decoded into a new array and leaves the segment
\* without samples, so that every later access decodes again and succeeds;
\* an unpack request on a segment without record list raises ValueError.
DeferredDecodeOwnedOnce ==
    \A m \in 1..Len(history) :
        LET e == history[m]
        IN /\ UnpackRequest(e)
           /\ (~HasRecordList(e.before) \/ HasSamples(e.before))
                 <=> e.raised = "ValueError"
           /\ e.raised \in { "", "ValueError" }
           /\ e.raised # "" => e.after = e.before
           /\ (e.raised = "" /\ e.op = "unpack_recordlist")
                 => /\ e.val = << e.before.samplecnt >>
                    /\ e.after.datasamples = DecodeList(e.before.recordlist)
                    /\ e.after.numsamples = e.before.samplecnt
           /\ (e.raised = "" /\ e.op = "np_datasamples")
                 => /\ e.val = DecodeList(e.before.recordlist)
                    /\ Len(e.val) = e.before.samplecnt
                    /\ e.after = e.before
                    /\ ~HasSamples(e.after)

\* np_datasamples was accessed twice on a segment made of two records, both
\* times returning its three samples; unpack_recordlist() on it then
\* returned 3 and a further request on it was rejected.
DeferredDecodeWitness ==
    /\ Len(history) = 4
    /\ \A m \in 1..4 : history[m].args = history[1].args
    /\ Len(history[1].before.recordlist) = 2
    /\ history[1].op = "np_datasamples" /\ history[1].raised = ""
    /\ history[2].op = "np_datasamples" /\ history[2].raised = ""
    /\ history[2].val = << 101, 102, 104 >>
    /\ history[3].op = "unpack_recordlist" /\ history[3].val = << 3 >>
    /\ history[4].raised = "ValueError"

----------------------------------------------------------------------------
(* Record times and rates                                                  *)

\* Records as a reader returns them: start times, stored sample rates (in
\* samples per second when positive, as a period in seconds when negative,
\* 0 for none) and sample counts.  Coverages stay below 2^31 nanoseconds.
StartTimeValues == { 0, 1, 19539000 }

SampleRates == { 0, 1, 2, 3, 20, RateA, -1, -2 }

SampleCounts == { 0, 1, 2, 3 }

Covered(samprate, samplecnt) == samprate < 0 => (samplecnt - 1) * (-samprate) <= 2

InitRecord ==
    /\ MSTraceList_init(FALSE)
    /\ msreader = None
    /\ args = None
    /\ stdout = << >>
    /\ history = << >>
    /\ \E starttime \in StartTimeValues, samprate \in SampleRates,
          samplecnt \in SampleCounts :
           /\ Covered(samprate, samplecnt)
           /\ ms3record = [MS3Record_init EXCEPT !.starttime = starttime,
                                                 !.samprate = samprate,
                                                 !.samplecnt = samplecnt]

NextRecord == MS3Record_endtime \/ MS3Record_samprate \/ MS3Record_samprate_raw

SpecRecord == InitRecord /\ [][NextRecord]_vars

\* v is the integer nearest to the fraction num / den.
Nearest(v, num, den) == Abs(v * den - num) <= den \div 2

\* The sum of a time and an offset, both as seconds and nanoseconds.
TimePlus(t, d) ==
    [sec |-> t.sec + d.sec + (t.ns + d.ns) \div NSTMODULUS,
     ns  |-> (t.ns + d.ns) % NSTMODULUS]

\* C12: endtime of a record with at least one sample and a non-zero rate is
\* starttime plus (samplecnt - 1) / rate seconds rounded to the nanosecond,
\* the rate being the effective rate in samples per second; endtime of a
\* record with no samples or no rate is starttime.  A record of 296 samples
\* at 20 Hz starting at 1267253400.019539000 ends at 1267253414.769539000.
EndTimeFormula ==
    /\ ret.op = "endtime" =>
          LET rate == msr3_sampratehz(ms3record)
              n    == ms3record.samplecnt
          IN IF n >= 1 /\ ms3record.samprate # 0
             THEN Nearest(ret.val[1] - ms3record.starttime,
                          (n - 1) * rate.den * NSTMODULUS, rate.num)
             ELSE ret.val[1] = ms3record.starttime
    /\ TimePlus([sec |-> 1267253400, ns |-> 19539000], SampleOffset(296 - 1, 20))
          = [sec |-> 1267253414, ns |-> 769539000]

\* endtime was read from a record of three samples at 3 Hz, whose last
\* sample is 666666667 ns after the first, and from one of two samples
\* with a period of 2 s.
EndTimeWitness ==
    /\ ret.op = "endtime"
    /\ \/ /\ ms3record.samprate = 3 /\ ms3record.samplecnt = 3
          /\ ret.val[1] = ms3record.starttime + 666666667
       \/ /\ ms3record.samprate = -2 /\ ms3record.samplecnt = 2
          /\ ret.val[1] = ms3record.starttime + 2 * NSTMODULUS

\* C13 as stated: samprate is the absolute value of the stored rate when
\* that is negative and the stored value otherwise; samprate_raw is the
\* stored value.
EffectiveRateIsAbs ==
    /\ ret.op = "samprate" => ret.val = << Abs(ms3record.samprate), 1 >>
    /\ ret.op = "samprate_raw" => ret.val = << ms3record.samprate >>

\* C13, amended: samprate is the rate in samples per second: the
\* reciprocal of the absolute value of the stored rate when that is
\* negative (a sample period in seconds) and the stored value otherwise;
\* samprate_raw is the stored value.
EffectiveRateIsReciprocal ==
    /\ ret.op = "samprate" =>
          IF ms3record.samprate < 0
          THEN ret.val = << 1, Abs(ms3record.samprate) >>
          ELSE ret.val = << ms3record.samprate, 1 >>
    /\ ret.op = "samprate_raw" => ret.val = << ms3record.samprate >>

\* samprate was read from a record that stores a period of 2 s.
EffectiveRateWitness ==
    /\ ret.op = "samprate"
    /\ ms3record.samprate = -2
    /\ ret.val = << 1, 2 >>

----------------------------------------------------------------------------
(* Source identifier codec                                                 *)

\* Network, station, location and channel codes within their widths.
Networks == { << "I", "U" >>, << "X", "X" >> }

Stations == { << "A" >>, << "C", "O", "L", "A" >>, << "T", "E", "S", "T", "S" >>,
              << "S", "T", "A", "T", "I", "O", "N", "S" >> }

Locations == { << >>, << "0" >>, << "0", "0" >> }

Channels == { << "B", "H", "Z" >>, << "B", "_", "S", "_", "X" >> }

\* An identifier is made of codes, split into codes again, and made again
\* of the codes it was split into.
Encode ==
    \E net \in Networks, sta \in Stations, loc \in Locations, chan \in Channels :
        /\ history = << >>
        /\ nslc2sourceid(net, sta, loc, chan)
        /\ history' = Append(history, ret')

Decode ==
    /\ Len(history) = 1
    /\ ret.raised = ""
    /\ sourceid2nslc(ret.val[1])
    /\ history' = Append(history, ret')

EncodeAgain ==
    /\ Len(history) = 2
    /\ ret.raised = ""
    /\ nslc2sourceid(ret.val[1], ret.val[2], ret.val[3], ret.val[4])
    /\ history' = Append(history, ret')

NextCodec == Encode \/ Decode \/ EncodeAgain

SpecCodec == InitPack /\ [][NextCodec]_vars

\* C14: a sourceid s returned by nslc2sourceid for codes within their
\* widths is split by sourceid2nslc into codes from which nslc2sourceid
\* makes s again; an empty location is an empty field between two
\* delimiters after the station and comes back as the empty string in
\* position 3 of the tuple.
SourceIdRoundTrip ==
    (Len(history) >= 1 /\ history[1].raised = "") =>
        LET s   == history[1].val[1]
            loc == history[1].args[3]
        IN /\ Len(history) >= 2 =>
                 /\ history[2].raised = ""
                 /\ history[2].val[3] = loc
           /\ Len(history) >= 3 =>
                 /\ history[3].raised = ""
                 /\ history[3].val = << s >>
           /\ loc = << >> =>
                 LET at == Len(FDSN) + Len(history[1].args[1]) + 1
                              + Len(history[1].args[2]) + 1
                 IN Len(s) > at /\ s[at] = "_" /\ s[at + 1] = "_"

----------------------------------------------------------------------------
(* Time-window selection                                                   *)

\* A record of the input stream, as the bytes of a version 3 record.
StreamRecord(sid, starttime, samprate, data) ==
    [sid |-> sid, pubversion |-> 1, starttime |-> starttime, samprate |-> samprate,
     samplecnt |-> Len(data), data |-> data, encoding |-> INT32,
     formatversion |-> 3, reclen |-> HeaderLength + SampleSize(INT32) * Len(data),
     sequence |-> << >>, extra |-> << >>]

Item(kind, rec) == [kind |-> kind, length |-> rec.reclen, rec |-> rec]

\* Three samples at 8, 12 and 16 ns; a record without samples and rate at
\* 12 ns; three samples at 3 Hz from 0 on, the last at 666666667 ns; three
\* samples at 6 Hz from 0 on, at 0, 166666667 and 333333333 ns.
StreamRecords ==
    { StreamRecord(1, 8, RateA, << 11, 12, 13 >>),
      StreamRecord(1, 12, 0, << >>),
      StreamRecord(2, 0, 3, << 21, 22, 23 >>),
      StreamRecord(2, 0, 6, << 31, 32, 33 >>) }

Streams ==
    { << Item("record", a) >> : a \in StreamRecords }
    \cup { << Item("record", a), Item("record", b) >> :
             a \in StreamRecords, b \in StreamRecords }

\* --earliest and --latest: absent or a time.
SelectionTimes ==
    { None } \cup { << t >> : t \in { 0, 5, 8, 10, 12, 16, 20, 666666667 } }

\* The tool as process_stream is entered: the arguments are parsed, an
\* earliest time after the latest time is refused when both count as given.
InitWindow ==
    /\ MSTraceList_init(FALSE)
    /\ ms3record = MS3Record_init
    /\ stdout = << >>
    /\ history = << >>
    /\ \E input \in Streams :
          msreader = MS3RecordReader_init(input, FALSE, FALSE, TRUE)
    /\ \E earliest \in SelectionTimes, latest \in SelectionTimes :
          /\ ~(Truthy(earliest) /\ Truthy(latest) /\ earliest[1] > latest[1])
          /\ args = [earliest |-> earliest, latest |-> latest]

NextWindow == process_stream

SpecWindow == InitWindow /\ [][NextWindow]_vars

\* A bound of the window is a time given on the command line.
Given(time) == time # None

\* C15: a record that ends before the earliest time or starts after the
\* latest time of the window is not written; a record whose coverage lies
\* inside the window is written as it was read, without being packed again.
WindowSelection ==
    \A k \in 1..Len(history) :
        LET e       == history[k]
            endtime == msr3_endtime(e.msr)
        IN /\ ( \/ Given(args.earliest) /\ endtime < args.earliest[1]
                \/ Given(args.latest) /\ e.msr.starttime > args.latest[1] )
                 => e.written = << >>
           /\ ( /\ Given(args.earliest) => args.earliest[1] <= e.msr.starttime
                /\ Given(args.latest) => endtime <= args.latest[1] )
                 => /\ e.written = e.msr.record
                    /\ e.packed = << >>

\* The least number of sample periods from the start time to a time not
\* before `earliest`.
LeastCount(starttime, earliest, sample_period_ns) ==
    CHOOSE k \in 0..4 :
        /\ starttime + k * sample_period_ns >= earliest
        /\ \A j \in 0..(k - 1) : starttime + j * sample_period_ns < earliest

\* C16: a record whose coverage contains the earliest time after its start
\* (and whose end the latest time does not cut off) is written with its
\* first k samples dropped, k being the least number with starttime + k *
\* sample_period_ns >= earliest: the sample count is smaller by k, the
\* start time later by k * sample_period_ns and the samples are the
\* original ones from index k on.
LeadingTrim ==
    \A i \in 1..Len(history) :
        LET e       == history[i]
            rec     == e.msr.record[1]
            endtime == msr3_endtime(e.msr)
            period  == SamplePeriodNs(e.msr)
            k       == LeastCount(rec.starttime, args.earliest[1], period)
        IN ( /\ Given(args.earliest)
             /\ rec.starttime < args.earliest[1]
             /\ args.earliest[1] <= endtime
             /\ Given(args.latest) => args.latest[1] >= endtime )
              => /\ Len(e.written) = 1
                 /\ e.written[1].samplecnt = rec.samplecnt - k
                 /\ e.written[1].starttime = rec.starttime + k * period
                 /\ e.written[1].data = SubSeq(rec.data, k + 1, Len(rec.data))

\* The record of samples at 8, 12 and 16 ns was written for an earliest
\* time of 10 ns with its first sample dropped, and the record at 3 Hz for
\* an earliest time equal to its end time with no sample left.
LeadingTrimWitness ==
    /\ args.earliest \in { << 10 >>, << 666666667 >> }
    /\ args.latest = None
    /\ \E i \in 1..Len(history) :
          /\ history[i].trimmed
          /\ Len(history[i].packed) = 1
          /\ \/ /\ history[i].written[1].data = << 12, 13 >>
                /\ history[i].written[1].starttime = 12
             \/ /\ history[i].msr.samprate = 3
                /\ history[i].written[1].samplecnt = 0

\* C17: a record without samples and without rate is never trimmed: for
\* every window it is, if written at all, written as it was read, and no
\* record is packed for it.
HeaderOnlyNeverTrimmed ==
    \A i \in 1..Len(history) :
        LET e == history[i]
        IN (e.msr.samplecnt = 0 /\ e.msr.samprate = 0)
              => /\ e.written \in { << >>, e.msr.record }
                 /\ e.packed = << >>

\* A record without samples and rate at 12 ns was written after a record
\* that was trimmed, for a window that begins or ends at 12 ns.
HeaderOnlyWitness ==
    /\ Len(history) = 2
    /\ history[1].packed # << >>
    /\ history[2].msr.samplecnt = 0 /\ history[2].msr.samprate = 0
    /\ history[2].written = history[2].msr.record
    /\ args.earliest = << 12 >> \/ args.latest = << 12 >>

\* The records written so far are those written for the records read, in
\* the order read, each for the channel of the record it was written for.
InArrivalOrder ==
    /\ stdout = Flatten([i \in 1..Len(history) |-> history[i].written])
    /\ \A i \in 1..Len(history) :
          /\ history[i].msr.record[1] = msreader.input[i].rec
          /\ Len(history[i].written) <= 1
          /\ \A k \in 1..Len(history[i].written) :
                history[i].written[k].sid = history[i].msr.sid

\* C22: process_stream writes the records it retains in the order they
\* arrived, and after every record records_written is the number of records
\* written and bytes_written the number of bytes written to the output,
\* also when a trimmed record was written in place of the record read.
StreamAccounting ==
    ret.op = "process_stream" =>
        /\ InArrivalOrder
        /\ ret.val[1] = Len(stdout)
        /\ ret.val[2] = SumSeq([k \in 1..Len(stdout) |-> stdout[k].reclen])

\* C26: the sample period trim_record steps by is 1e9 / rate rounded to
\* the nearest nanosecond, so that starttime + k * sample_period_ns is the
\* time of sample k of the record, and the start time of a trimmed record
\* is the time of one of the samples of the record it was cut from.
SamplePeriodRounded ==
    \A i \in 1..Len(history) :
        LET e   == history[i]
            rec == e.msr.record[1]
            hz  == msr3_sampratehz(e.msr)
        IN e.trimmed =>
              /\ Nearest(SamplePeriodNs(e.msr), NSTMODULUS * hz.den, hz.num)
              /\ \A k \in 0..(rec.samplecnt - 1) :
                    rec.starttime + k * SamplePeriodNs(e.msr)
                       = ms_sampletime(rec.starttime, k, rec.samprate)
              /\ \A j \in 1..Len(e.written) :
                    e.written[j].samplecnt > 0 =>
                       \E k \in 0..(rec.samplecnt - 1) :
                          e.written[j].starttime
                             = ms_sampletime(rec.starttime, k, rec.samprate)

WrittenEnd(rec) ==
    IF rec.samplecnt > 0
    THEN ms_sampletime(rec.starttime, rec.samplecnt - 1, rec.samprate)
    ELSE rec.starttime

\* C25: a record that was re-packed for a window that overlaps its coverage
\* in part lies inside the window (it starts at or after the earliest time
\* and ends at or before the latest time), keeps at least one sample, and
\* has lost no more samples at its end than needed: the sample after its
\* last one is later than the latest time.
TrimPostcondition ==
    \A i \in 1..Len(history) :
        LET e   == history[i]
            rec == e.msr.record[1]
        IN (e.trimmed /\ e.packed # << >>) =>
              /\ Len(e.written) = 1
              /\ e.written[1].samplecnt >= 1
              /\ Given(args.earliest) => e.written[1].starttime >= args.earliest[1]
              /\ Given(args.latest) => WrittenEnd(e.written[1]) <= args.latest[1]
              /\ (Given(args.latest) /\ args.latest[1] < msr3_endtime(e.msr)) =>
                    ms_sampletime(e.written[1].starttime, e.written[1].samplecnt,
                                  rec.samprate) > args.latest[1]

----------------------------------------------------------------------------
(* Sequence numbers of version 2 records                                   *)

\* A version 2 record of two samples that starts with the given 6 bytes.
Version2Record(sequence) ==
    [sid |-> 1, pubversion |-> 1, starttime |-> 0, samprate |-> RateA,
     samplecnt |-> 2, data |-> << 11, 12 >>, encoding |-> INT32,
     formatversion |-> 2, reclen |-> HeaderLength + 2 * SampleSize(INT32),
     sequence |-> sequence, extra |-> << >>]

\* The records read: version 2 records with the sequence numbers 12 and
\* 999999, and a version 3 record with an extra header.
SequenceRecords ==
    { Version2Record(<< "0", "0", "0", "0", "1", "2" >>),
      Version2Record(<< "9", "9", "9", "9", "9", "9" >>),
      [StreamRecord(1, 0, RateA, << 11, 12 >>) EXCEPT !.extra = [Operator |-> 1]] }

\* Extra headers set between reading and packing.
ExtraValues ==
    { [Operator |-> 1],
      [FDSN |-> [Time |-> 5]],
      [FDSN |-> [Sequence |-> 7, Time |-> 5], Operator |-> 1] }

InitSequence ==
    /\ MSTraceList_init(FALSE)
    /\ ms3record = MS3Record_init
    /\ args = None
    /\ stdout = << >>
    /\ history = << >>
    /\ \E rec \in SequenceRecords :
          msreader = MS3RecordReader_init(<< Item("record", rec) >>, TRUE, FALSE, TRUE)

\* msr = msreader.read(), while the reader has records.
ReadRecord ==
    /\ msreader.offset < Len(msreader.input)
    /\ MS3RecordReader_read
    /\ UNCHANGED history

\* The extra headers of the record read are set, once.
SetExtra ==
    /\ ms3record.record # << >>
    /\ ms3record.extra = ms3record.record[1].extra
    /\ ret.op = "read"
    /\ \E value \in ExtraValues : MS3Record_set_extra(value)

\* The format version of the record read is changed.
SetFormatVersion ==
    /\ ms3record.record # << >>
    /\ ret.op \in { "read", "MS3Record.extra" }
    /\ \E value \in { 2, 3 } \ { ms3record.formatversion } :
          MS3Record_set_formatversion(value)

\* What a pack call did: the record before and after, and the records the
\* handler was given.
Repacked(outcome, before, after, records) ==
    [raised |-> outcome.raised, before |-> before, after |-> after,
     records |-> records]

\* msr.pack(record_handler) on the record read.
Repack ==
    /\ ms3record.record # << >>
    /\ ret.op # "MS3Record.pack"
    /\ Len(history) < MaxCalls
    /\ MS3Record_pack("record_handler", "None", ms3record.datasamples, "i")
    /\ history' = Append(history,
                         Repacked(ret', ms3record, ms3record', Received(calls')))

\* The records of the last pack call are read in turn.
Reparse ==
    /\ ret.op = "MS3Record.pack"
    /\ calls # << >>
    /\ msreader' = MS3RecordReader_init([k \in 1..Len(calls) |->
                                            Item("record", calls[k].record)],
                                         TRUE, FALSE, TRUE)
    /\ ret' = Returned("MS3RecordReader", None)
    /\ UNCHANGED << mstl, split_version, parse_flags, filenames, record_handler,
                    record_handler_data, calls, requested, offered, record_buffer,
                    totals, packing, args, stdout, ms3record, history >>

NextSequence == ReadRecord \/ SetExtra \/ SetFormatVersion \/ Repack \/ Reparse

SpecSequence == InitSequence /\ [][NextSequence]_vars

----------------------------------------------------------------------------
(* Readers: parse errors and CRC validation                                *)

\* `length` bytes of the input of the given kind.
Bytes(kind, length, rec) == [kind |-> kind, length |-> length, rec |-> rec]

\* A record of two samples, 48 bytes.
ValidRecord == StreamRecord(1, 0, RateA, << 11, 12 >>)

\* What the input holds: the record, the record with a CRC that does not
\* match, 10 and 64 bytes that are no record, a header declaring an illegal
\* length, and the first 44 bytes of the record.
ReaderItems ==
    { Item("record", ValidRecord),
      Item("badcrc", ValidRecord),
      Bytes("notseed", 10, << >>),
      Bytes("notseed", 64, << >>),
      Bytes("outofrange", 48, << >>),
      Bytes("truncated", 44, ValidRecord) }

\* Inputs of one or two items; a truncated record is the end of its input.
ReaderInputs ==
    { << a >> : a \in ReaderItems }
    \cup { << a, b >> : a \in { i \in ReaderItems : i.kind # "truncated" },
                         b \in ReaderItems }

\* A reader of either kind is constructed on an input; `args` holds the
\* arguments it was constructed with.
InitReader ==
    /\ MSTraceList_init(FALSE)
    /\ ms3record = MS3Record_init
    /\ stdout = << >>
    /\ history = << >>
    /\ \E input \in ReaderInputs, skip_not_data \in BOOLEAN, validate_crc \in BOOLEAN :
          /\ args = [skip_not_data |-> skip_not_data, validate_crc |-> validate_crc]
          /\ \/ msreader = MS3RecordReader_init(input, TRUE, skip_not_data,
                                                 validate_crc)
             \/ /\ ~skip_not_data
                /\ msreader = MSRecordBufferReader_init(input, TRUE, validate_crc)

\* What a read did: the arguments, the input from the position of the
\* reader on, the bytes consumed and the outcome; for read_file the trace
\* list afterwards.
ReadOutcome(op, arguments, rest, consumed, outcome, list) ==
    [op |-> op, args |-> arguments, rest |-> rest, consumed |-> consumed,
     raised |-> outcome.raised, val |-> outcome.val, mstl |-> list]

\* The input from the position of the reader on.
Rest == SubSeq(msreader.input, msreader.offset + 1, Len(msreader.input))

\* The iteration goes on: no read has raised or returned None.
Iterating ==
    /\ Len(history) < MaxCalls
    /\ \A i \in 1..Len(history) : history[i].raised = "" /\ history[i].val # None

\* msreader.read() on a MS3RecordReader
ReadFromFile ==
    /\ Iterating
    /\ MS3RecordReader_read
    /\ history' = Append(history,
                         ReadOutcome("MS3RecordReader.read", args, Rest,
                                     msreader'.offset - msreader.offset, ret', mstl'))

\* msreader.read() on a MSRecordBufferReader
ReadFromBuffer ==
    /\ Iterating
    /\ MSRecordBufferReader_read
    /\ history' = Append(history,
                         ReadOutcome("MSRecordBufferReader.read", args, Rest,
                                     msreader'.offset - msreader.offset, ret', mstl'))

\* MSTraceList.read_file on a file whose second record has a CRC that does
\* not match.
ReadIntoTraceList ==
    \E validate_crc \in BOOLEAN :
        /\ filenames = << >>
        /\ history = << >>
        /\ read_file("corrupt.mseed3", TRUE, FALSE, args.skip_not_data, validate_crc,
                     FALSE)
        /\ history' = Append(history,
                             ReadOutcome("read_file",
                                         [args EXCEPT !.validate_crc = validate_crc],
                                         << >>, 0, ret', mstl'))

NextReader == ReadFromFile \/ ReadFromBuffer \/ ReadIntoTraceList

SpecReader == InitReader /\ [][NextReader]_vars

\* The next bytes of the input do not form a valid record.
NoRecordNext(e) ==
    /\ e.rest # << >>
    /\ \/ e.rest[1].kind \in { "notseed", "outofrange", "truncated" }
       \/ e.rest[1].kind = "badcrc" /\ e.args.validate_crc

\* C19: a read by a reader that was not asked to skip, whose next bytes do
\* not form a valid record, raises an error and consumes nothing; a read by
\* a reader asked to skip consumes bytes that are no record.
ParseErrorsRaised ==
    \A i \in 1..Len(history) :
        LET e == history[i]
        IN e.op # "read_file" =>
             /\ (~e.args.skip_not_data /\ NoRecordNext(e))
                   => (e.raised = "MseedLibError" /\ e.consumed = 0)
             /\ (e.args.skip_not_data /\ e.rest # << >> /\ e.rest[1].kind = "notseed")
                   => e.consumed >= 1

\* The corrupt record of the file is in the trace list.
Assimilated(list) == mstl3_findID(list, 2, 0) # NULL

\* C20: a record whose stored CRC does not match its bytes is never
\* returned by a reader nor added to a trace list: the read raises
\* MseedLibError with MS_INVALIDCRC.
CrcAlwaysSurfaced ==
    \A i \in 1..Len(history) :
        LET e == history[i]
        IN /\ (e.op # "read_file" /\ e.rest # << >> /\ e.rest[1].kind = "badcrc")
                 => (e.raised = "MseedLibError" /\ e.val = << MS_INVALIDCRC >>)
           /\ e.op = "read_file"
                 => (/\ e.raised = "MseedLibError" /\ e.val = << MS_INVALIDCRC >>
                     /\ ~Assimilated(e.mstl))

\* C20, with validation requested: a record whose stored CRC does not match
\* its bytes is not returned by a reader constructed with validate_crc nor
\* added to a trace list by read_file called with validate_crc: the read
\* raises MseedLibError with MS_INVALIDCRC, the reader stays where it was
\* and the trace list keeps the records that came before.
CrcSurfacedWhenValidated ==
    \A i \in 1..Len(history) :
        LET e == history[i]
        IN e.args.validate_crc =>
             /\ (e.op # "read_file" /\ e.rest # << >> /\ e.rest[1].kind = "badcrc")
                   => /\ e.raised = "MseedLibError"
                      /\ e.val = << MS_INVALIDCRC >>
                      /\ e.consumed = 0
             /\ e.op = "read_file"
                   => /\ e.raised = "MseedLibError"
                      /\ e.val = << MS_INVALIDCRC >>
                      /\ ~Assimilated(e.mstl)
                      /\ mstl3_findID(e.mstl, 1, 0) # NULL
                      /\ mstl3_findID(e.mstl, 3, 0) = NULL

\* A reader constructed with validate_crc returned a record and then raised
\* for the record with the bad CRC that follows, and read_file called with
\* validate_crc raised on the corrupt file.
CrcSurfacedWitness ==
    /\ args.validate_crc
    /\ \/ /\ Len(history) = 2
          /\ history[1].op # "read_file"
          /\ history[1].raised = "" /\ history[1].val # None
          /\ history[2].rest[1].kind = "badcrc"
          /\ history[2].raised = "MseedLibError"
       \/ /\ Len(history) = 1
          /\ history[1].op = "read_file"
          /\ history[1].args.validate_crc
          /\ history[1].raised = "MseedLibError"

----------------------------------------------------------------------------
(* No partial assimilation                                                 *)

\* What a call did to the trace list: whether it left it as it was, and
\* the number of records it reflects that it did not reflect before.
Effect(before, after) ==
    [unchanged |-> before.mstl = after.mstl,
     reflected |-> Len(after.offered) - Len(before.offered)]

\* The trace list and the records offered to it.
Assembled(list, recs) == [mstl |-> list, offered |-> recs]

\* The effect of the call being made is kept, the last call only.
KeepEffect ==
    history' = << Effect(Assembled(mstl, offered), Assembled(mstl', offered')) >>

\* Records are added to two channels: to the first in and out of order,
\* records of several samples continuing the last one.
AddOffered ==
    \E sourceid \in 1..2, n \in 1..MaxSamples :
      \E start_time \in StartTimes(sourceid) :
        /\ Steps < MaxRecords
        /\ (sourceid = 2 \/ n > 1) => start_time = NextStart(offered, sourceid)
        /\ sourceid = 2 => n = 1
        /\ add_data(sourceid, FreshSamples(n), "i", RateA, << start_time >>, 1)
        /\ KeepEffect

\* add_data with a sample type that is none of i, f, d, t or without a
\* start time.
AddInvalid ==
    \E sample_type \in { "i", "x" }, start_time \in { None, << 0 >> } :
        /\ sample_type = "x" \/ start_time = None
        /\ add_data(1, FreshSamples(1), sample_type, RateA, start_time, 1)
        /\ KeepEffect

\* add_data with valid arguments that the library rejects.
AddRejected ==
    /\ add_data_rejected(1, FreshSamples(1), "i", RateA,
                         << NextStart(offered, 1) >>, 1)
    /\ KeepEffect

AtomicFiles == { "versions.mseed3", "corrupt.mseed3", "NOSUCHFILE" }

\* A file is read: one that is read to its end, one whose second record
\* fails CRC validation, one that does not exist.
ReadOffered ==
    \E file_name \in AtomicFiles, unpack_data \in BOOLEAN, record_list \in BOOLEAN,
       validate_crc \in BOOLEAN :
        /\ CanRead
        /\ Steps < MaxRecords
        /\ file_name = "versions.mseed3" => validate_crc
        /\ file_name = "corrupt.mseed3" => ~record_list
        /\ file_name = "NOSUCHFILE" => (~unpack_data /\ ~record_list /\ validate_crc)
        /\ read_file(file_name, unpack_data, record_list, FALSE, validate_crc, FALSE)
        /\ KeepEffect

NextAtomic == AddOffered \/ AddInvalid \/ AddRejected \/ ReadOffered

SpecAtomic == InitPack /\ [][NextAtomic]_vars

\* The records of a channel, in the order offered, make up its segments in
\* list order: each segment covers a run of consecutive records, starts
\* with the first of them, ends with the end of the last, counts and holds
\* the samples of all of them, and lists all or none of those read from a
\* file.
RECURSIVE MakeUp(_, _)
MakeUp(recs, segs) ==
    IF segs = << >> THEN recs = << >>
    ELSE \E k \in 1..Len(recs) :
            LET seg == Head(segs)
            IN /\ seg.starttime = recs[1].rec.starttime
               /\ seg.endtime = msr3_endtime(recs[k].rec)
               /\ seg.samplecnt = SumSeq([j \in 1..k |-> recs[j].rec.samplecnt])
               /\ seg.datasamples =
                      Flatten([j \in 1..k |-> recs[j].rec.datasamples])
               /\ seg.numsamples = Len(seg.datasamples)
               /\ Len(seg.recordlist) \in
                      { 0, Cardinality({ j \in 1..k : recs[j].file # "" }) }
               /\ MakeUp(SubSeq(recs, k + 1, Len(recs)), Tail(segs))

\* Every record offered is reflected in full: in the segments of its
\* channel and in the summary of its trace ID.
FullyReflected ==
    /\ mstl.numtraceids =
          Cardinality({ offered[k].rec.sid : k \in 1..Len(offered) })
    /\ \A sid \in SourceIds :
          LET recs == OfferedFor(sid)
              at   == mstl3_findID(mstl, sid, 0)
          IN /\ MakeUp(recs, SegsOf(sid))
             /\ (at = NULL) = (recs = << >>)
             /\ at # NULL =>
                   /\ mstl.traces[at].numsegments = Len(SegsOf(sid))
                   /\ mstl.traces[at].earliest =
                         MinOf([k \in 1..Len(recs) |-> recs[k].rec.starttime])
                   /\ mstl.traces[at].latest =
                         MaxOf([k \in 1..Len(recs) |-> msr3_endtime(recs[k].rec)])

\* C21: after every add_data or read_file call, returning or raising, each
\* record offered to the trace list is reflected in full (sample count, end
\* time, samples or record list of its segment and earliest/latest of its
\* trace ID) or not at all, and an add_data call that raises leaves the
\* trace list with all its segments and samples as it was.
NoPartialAssimilation ==
    /\ FullyReflected
    /\ (ret.op = "add_data" /\ ret.raised # "") =>
          (history[1].unchanged /\ history[1].reflected = 0)
    /\ (ret.op = "add_data" /\ ret.raised = "") => history[1].reflected = 1
    /\ (ret.op = "read_file" /\ ret.raised = "") =>
          history[1].reflected = Len(FileRecords(filenames[Len(filenames)]))

\* A read that raised at the second record of a file left the first record
\* in the trace list, a record was added to that channel, and the last
\* add_data call raised.
NoPartialWitness ==
    /\ ret.op = "add_data"
    /\ ret.raised # ""
    /\ filenames = << "corrupt.mseed3" >>
    /\ Len(SelectSeq(offered, LAMBDA o : o.file = "corrupt.mseed3")) = 1
    /\ Len(OfferedFor(1)) = 2
    /\ mstl.numtraceids = 1

----------------------------------------------------------------------------
(* Readers: iteration over complete records                                *)

\* Records of one, two and three samples: 44, 48 and 52 bytes.
CompleteRecords ==
    { StreamRecord(1, 0, RateA, << 11, 12 >>),
      StreamRecord(1, 8, RateA, << 13 >>),
      StreamRecord(2, 0, RateA, << 21, 22, 23 >>) }

\* Inputs that hold N complete records and nothing else, N from 0 to 3.
CompleteInputs ==
    { << >> }
    \cup { << Item("record", a) >> : a \in CompleteRecords }
    \cup { << Item("record", a), Item("record", b) >> :
             a \in CompleteRecords, b \in CompleteRecords }
    \cup { << Item("record", a), Item("record", b), Item("record", c) >> :
             a \in CompleteRecords, b \in CompleteRecords, c \in CompleteRecords }

\* A reader of either kind is constructed on an input of complete records.
InitIteration ==
    /\ MSTraceList_init(FALSE)
    /\ ms3record = MS3Record_init
    /\ stdout = << >>
    /\ history = << >>
    /\ \E input \in CompleteInputs, unpack_data \in BOOLEAN, validate_crc \in BOOLEAN :
          /\ args = [skip_not_data |-> FALSE, validate_crc |-> validate_crc]
          /\ \/ msreader = MS3RecordReader_init(input, unpack_data, FALSE,
                                                 validate_crc)
             \/ msreader = MSRecordBufferReader_init(input, unpack_data,
                                                     validate_crc)

\* The reader is iterated: read() is called until it returns None.
NextIteration == ReadFromFile \/ ReadFromBuffer

SpecIteration == InitIteration /\ [][NextIteration]_vars

\* The bytes of the first n items of an input.
BytesOf(input, n) == SumSeq([k \in 1..n |-> input[k].length])

\* source_offset: the bytes of the input before the position of the reader.
source_offset == BytesOf(msreader.input, msreader.offset)

----------------------------------------------------------------------------
(* Sorting miniSEED content (msrecord_buffer_compare.py) and the ordering  *)
(* of MS3Record                                                            *)

\* The key tuples compare as Python tuples do: by the first component, then
\* by the second.
TupleLess(a, b) == a[1] < b[1] \/ (a[1] = b[1] /\ a[2] < b[2])

\* MS3Record.__lt__, __gt__, __le__, __ge__
MS3Record_lt(self, obj) ==
    TupleLess(<< self.sid, self.starttime >>, << obj.sid, obj.starttime >>)

MS3Record_gt(self, obj) ==
    TupleLess(<< obj.sid, obj.starttime >>, << self.sid, self.starttime >>)

MS3Record_le(self, obj) ==
    \/ TupleLess(<< self.sid, self.starttime >>, << obj.sid, obj.starttime >>)
    \/ << self.sid, self.starttime >> = << obj.sid, obj.starttime >>

MS3Record_ge(self, obj) ==
    \/ TupleLess(<< obj.sid, obj.starttime >>, << self.sid, self.starttime >>)
    \/ << self.sid, self.starttime >> = << obj.sid, obj.starttime >>

\* `for msr in msreader` on a MSRecordBufferReader over the content, from
\* position `offset` on: the (sourceid, starttime, record) triplets of the
\* records read until read() returns None, and the error raised if any.
RECURSIVE Triplets(_, _, _)
Triplets(source, offset, flags) ==
    IF RemainingBytes(source, offset) <= MinimumBytes
    THEN [raised |-> "", triplets |-> << >>]
    ELSE LET r == msr3_parse(source, offset, flags)
         IN IF r.status = MS_NOERROR
            THEN LET rest == Triplets(source, offset + 1, flags)
                 IN [raised   |-> rest.raised,
                     triplets |-> << << r.msr.sid, r.msr.starttime, r.msr.record >> >>
                                  \o rest.triplets]
            ELSE IF r.status > 0
            THEN [raised |-> "", triplets |-> << >>]
            ELSE [raised |-> "MseedLibError", triplets |-> << >>]

\* A sorted list with one more triplet, put before the triplets whose key
\* is not smaller.
RECURSIVE InsertedFirst(_, _)
InsertedFirst(sorted, x) ==
    IF sorted = << >> THEN << x >>
    ELSE IF ~TupleLess(Head(sorted), x) THEN << x >> \o sorted
    ELSE << Head(sorted) >> \o InsertedFirst(Tail(sorted), x)

\* A sorted list with one more triplet, put after the triplets whose key is
\* not greater.
RECURSIVE Inserted(_, _)
Inserted(sorted, x) ==
    IF sorted = << >> THEN << x >>
    ELSE IF TupleLess(x, Head(sorted)) THEN << x >> \o sorted
    ELSE << Head(sorted) >> \o Inserted(Tail(sorted), x)

\* A sort by the key that puts triplets of equal key in reverse order.
RECURSIVE SortedUnstable(_)
SortedUnstable(list) ==
    IF list = << >> THEN << >>
    ELSE InsertedFirst(SortedUnstable(SubSeq(list, 1, Len(list) - 1)),
                       list[Len(list)])

\* list.sort(key=lambda x: (x[0], x[1])): a stable sort by the key.
RECURSIVE Sorted(_)
Sorted(list) ==
    IF list = << >> THEN << >>
    ELSE Inserted(Sorted(SubSeq(list, 1, Len(list) - 1)), list[Len(list)])

\* sort_mseed_content(content): [raised, content], the content being the
\* records joined in sorted order.
sort_mseed_content(content) ==
    LET read   == Triplets(content, 0, { "MSF_VALIDATECRC" })
        sorted == Sorted(read.triplets)
    IN [raised  |-> read.raised,
        content |-> IF read.raised # "" THEN << >>
                    ELSE [k \in 1..Len(sorted) |-> Item("record", sorted[k][3][1])]]

\* Records of two channels at three times; two pairs of records have the
\* same channel and time and differ in their samples.
SortRecords ==
    { StreamRecord(1, 0, RateA, << 11 >>),
      StreamRecord(1, 0, RateA, << 12, 13 >>),
      StreamRecord(1, 8, RateA, << 14 >>),
      StreamRecord(2, 0, RateA, << 21 >>),
      StreamRecord(2, 4, RateA, << 22 >>),
      StreamRecord(2, 4, RateA, << 23, 24 >>) }

\* miniSEED content of up to MaxRecords records.
RECURSIVE Contents(_)
Contents(n) ==
    IF n = 0 THEN { << >> }
    ELSE Contents(n - 1)
         \cup { Append(c, Item("record", a)) :
                  c \in { x \in Contents(n - 1) : Len(x) = n - 1 }, a \in SortRecords }

\* The content to sort is in args; nothing was sorted or compared yet.
InitSort ==
    /\ MSTraceList_init(FALSE)
    /\ ms3record = MS3Record_init
    /\ msreader = None
    /\ stdout = << >>
    /\ history = << >>
    /\ \E content \in Contents(MaxRecords) : args = [content |-> content]

\* What a call of sort_mseed_content was given and what it returned.
SortedFrom(content, result) == [content |-> content, sorted |-> result.content]

\* sort_mseed_content(content)
SortContent ==
    /\ history = << >>
    /\ ret' = Returned("sort_mseed_content",
                       << sort_mseed_content(args.content).content >>)
    /\ history' = << SortedFrom(args.content, sort_mseed_content(args.content)) >>
    /\ UNCHANGED << mstl, split_version, parse_flags, filenames, record_handler,
                    record_handler_data, calls, requested, offered, record_buffer,
                    totals, packing, ms3record, msreader, args, stdout >>

\* sort_mseed_content on the content the first call returned.
SortSorted ==
    /\ Len(history) = 1
    /\ ret' = Returned("sort_mseed_content",
                       << sort_mseed_content(history[1].sorted).content >>)
    /\ history' = Append(history,
                         SortedFrom(history[1].sorted,
                                    sort_mseed_content(history[1].sorted)))
    /\ UNCHANGED << mstl, split_version, parse_flags, filenames, record_handler,
                    record_handler_data, calls, requested, offered, record_buffer,
                    totals, packing, ms3record, msreader, args, stdout >>

\* The records at two positions of the content compared with <, <=, > and
\* >=.
CompareRecords ==
    \E i \in 1..Len(args.content), j \in 1..Len(args.content) :
        LET a == ParsedFrom(args.content[i].rec, {})
            b == ParsedFrom(args.content[j].rec, {})
        IN /\ ret' = CalledWith(Returned("compare",
                                         << MS3Record_lt(a, b), MS3Record_le(a, b),
                                            MS3Record_gt(a, b), MS3Record_ge(a, b) >>),
                                << i, j >>)
           /\ UNCHANGED << mstl, split_version, parse_flags, filenames,
                           record_handler, record_handler_data, calls, requested,
                           offered, record_buffer, totals, packing, ms3record,
                           msreader, args, stdout, history >>

NextSort == SortContent \/ SortSorted \/ CompareRecords

SpecSort == InitSort /\ [][NextSort]_vars

\* The record at position i of a content comes before the one at position
\* j in (sourceid, starttime) order, or has the same sourceid and starttime.
Before(content, i, j) ==
    \/ content[i].rec.sid < content[j].rec.sid
    \/ /\ content[i].rec.sid = content[j].rec.sid
       /\ content[i].rec.starttime <= content[j].rec.starttime

\* The items of a content that have the sourceid and start time of `item`.
SameKey(content, item) ==
    SelectSeq(content, LAMBDA x : /\ x.rec.sid = item.rec.sid
                                  /\ x.rec.starttime = item.rec.starttime)

\* C24: sort_mseed_content returns the records of its input, each as it
\* was and as often as it was there, in non-decreasing (sourceid,
\* starttime) order, the order of the comparison operators of MS3Record;
\* records of equal sourceid and starttime keep their input order and
\* sorted content comes back unchanged.
SortIsStablePermutation ==
    /\ \A n \in 1..Len(history) :
          LET e == history[n]
          IN /\ Len(e.sorted) = Len(e.content)
             /\ \A k \in 1..Len(e.content) :
                   /\ Occurrences(e.sorted, e.content[k])
                         = Occurrences(e.content, e.content[k])
                   /\ SameKey(e.sorted, e.content[k]) = SameKey(e.content, e.content[k])
             /\ \A i \in 1..Len(e.sorted) : \A j \in i..Len(e.sorted) :
                   /\ Before(e.sorted, i, j)
                   /\ MS3Record_le(e.sorted[i].rec, e.sorted[j].rec)
                   /\ ~MS3Record_gt(e.sorted[i].rec, e.sorted[j].rec)
             /\ (\A i \in 1..Len(e.content) : \A j \in i..Len(e.content) :
                    Before(e.content, i, j)) => e.sorted = e.content
    /\ Len(history) = 2 => history[2].sorted = history[2].content
    /\ ret.op = "compare" =>
          LET i == ret.args[1]
              j == ret.args[2]
          IN /\ ret.val[2] = Before(args.content, i, j)
             /\ ret.val[4] = Before(args.content, j, i)
             /\ ret.val[1] = ~Before(args.content, j, i)
             /\ ret.val[3] = ~Before(args.content, i, j)

\* Content of three records that was not in order was sorted: two records
\* of one channel and one time, the one of two samples first, came out in
\* that order, after a record that came last in the input.
SortWitness ==
    /\ Len(history) = 2
    /\ Len(history[1].content) = 3
    /\ history[1].sorted # history[1].content
    /\ history[1].content[1].rec.sid = 2
    /\ history[1].content[1].rec.samplecnt = 2
    /\ history[1].content[2].rec = StreamRecord(2, 4, RateA, << 22 >>)
    /\ history[1].content[3].rec.sid = 1
    /\ history[1].sorted[2] = history[1].content[1]
    /\ history[1].sorted[3] = history[1].content[2]

----------------------------------------------------------------------------
(* Traversals of a trace list by two threads.  For a traversal the trace   *)
(* list carries, next to the MS3TraceList structure, the _prvtptr field of *)
(* every segment (prvtptr, NULL or the number of a TraceSegInfo buffer)    *)
(* and the buffers ever allocated (objects): a buffer is live while        *)
(* self._mstl._objects keeps it, which is until another buffer is stored   *)
(* in the same field through the same path.  A generator is                *)
(*   [pc, at, seg, ref]                                                    *)
(* the position in traceids(), the segment in segments() and the buffer    *)
(* the TraceSegInfo object it was returned refers to.                      *)

\* The trace lists traversed: two channels of one segment each, read from
\* a file, and one channel of two segments, the first record of a file
\* read twice (the read stops at its second record, which fails the CRC
\* validation).
TraversedLists ==
    LET flags    == { "MSF_RECORDLIST" }
        validate == { "MSF_RECORDLIST", "MSF_VALIDATECRC" }
        once     == ms3_readtracelist_selection(mstl3_init, "corrupt.mseed3", 0, validate).mstl
    IN { ms3_readtracelist_selection(mstl3_init, "versions.mseed3", 0, flags).mstl,
         ms3_readtracelist_selection(once, "corrupt.mseed3", 0, validate).mstl }

\* The positions of the segments of a list: << trace ID, segment >>.
SegmentsIn(l) ==
    UNION { { << i, j >> : j \in 1..Len(l.traces[i].segs) } : i \in 1..Len(l.traces) }

\* A trace list no segment of which was given a TraceSegInfo yet.
Untraversed(l) ==
    [numtraceids |-> l.numtraceids, traces |-> l.traces, next0 |-> l.next0,
     prvtptr |-> [p \in SegmentsIn(l) |-> NULL], objects |-> << >>]

\* A generator before its first next().
Generator == [pc |-> "traceids", at |-> 0, seg |-> 0, ref |-> NULL]

\* ct.create_string_buffer(ct.sizeof(TraceSegInfo)): zeroed memory.
TraceSegInfo == [live |-> TRUE, traceid_address |-> NULL, updated |-> 0]

\* The trace ID and the segment a generator is at.
CurrentTraceid(g) == traceids(mstl)[g.at]

CurrentSegment(g) == << CurrentTraceid(g), g.seg >>

\* What a visitor was given: a trace ID (seg = 0) or one of its segments
\* together with the traceid_address its info showed.
Visit(t, traceid, seg, address) ==
    [thread |-> t, traceid |-> traceid, seg |-> seg, traceid_address |-> address]

InitTraverse ==
    /\ \E l \in TraversedLists : mstl = Untraversed(l)
    /\ msreader = << Generator, Generator >>
    /\ split_version = 0
    /\ parse_flags = { "MSF_RECORDLIST" }
    /\ filenames = << >>
    /\ record_handler = "None"
    /\ record_handler_data = "None"
    /\ ret = Returned("__init__", << >>)
    /\ calls = << >>
    /\ requested = FALSE
    /\ offered = << >>
    /\ record_buffer = << >>
    /\ totals = << 0, 0 >>
    /\ packing = [params |-> {}, flushes |-> 0, last |-> << >>]
    /\ ms3record = MS3Record_init
    /\ args = None
    /\ stdout = << >>
    /\ history = << >>

\* One thread steps, nothing but the trace list, the generators and the
\* visits changes.
TraverseFrame ==
    UNCHANGED << split_version, parse_flags, filenames, record_handler,
                 record_handler_data, ret, calls, requested, offered, record_buffer,
                 totals, packing, ms3record, args, stdout >>

\* MSTraceList.traceids(): the next trace ID is yielded, and the visitor
\* calls segments() on it, which starts at _first; after the last trace ID
\* the generator is exhausted.
MSTraceList_traceids(t) ==
    LET g == msreader[t]
    IN /\ g.pc = "traceids"
       /\ IF g.at < Len(traceids(mstl))
          THEN LET traceid == traceids(mstl)[g.at + 1]
               IN /\ msreader' = [msreader EXCEPT ![t] =
                        [g EXCEPT !.at = g.at + 1,
                                  !.seg = IF mstl.traces[traceid].segs = << >> THEN 0 ELSE 1,
                                  !.pc = IF mstl.traces[traceid].segs = << >>
                                         THEN "traceids" ELSE "info"]]
                  /\ history' = Append(history, Visit(t, traceid, 0, traceid))
          ELSE /\ msreader' = [msreader EXCEPT ![t].pc = "done"]
               /\ UNCHANGED history
       /\ UNCHANGED mstl
       /\ TraverseFrame

\* MS3TraceSeg.info: `if not self._prvtptr`
MS3TraceSeg_info_test(t) ==
    LET g == msreader[t]
    IN /\ g.pc = "info"
       /\ msreader' = [msreader EXCEPT ![t].pc =
                          IF mstl.prvtptr[CurrentSegment(g)] = NULL
                          THEN "allocate" ELSE "contents"]
       /\ UNCHANGED << mstl, history >>
       /\ TraverseFrame

\* MS3TraceSeg.info: a buffer is created and stored in _prvtptr; the buffer
\* stored there before is no longer kept by any object.
MS3TraceSeg_info_allocate(t) ==
    LET g   == msreader[t]
        old == mstl.prvtptr[CurrentSegment(g)]
        new == Len(mstl.objects) + 1
    IN /\ g.pc = "allocate"
       /\ mstl' = [mstl EXCEPT
                      !.objects = Append([k \in 1..Len(@) |->
                                            IF k = old THEN [@[k] EXCEPT !.live = FALSE]
                                            ELSE @[k]],
                                         TraceSegInfo),
                      !.prvtptr[CurrentSegment(g)] = new]
       /\ msreader' = [msreader EXCEPT ![t].pc = "contents"]
       /\ UNCHANGED history
       /\ TraverseFrame

\* MS3TraceSeg.info: `return self._prvtptr.contents`
MS3TraceSeg_info_contents(t) ==
    LET g == msreader[t]
    IN /\ g.pc = "contents"
       /\ msreader' = [msreader EXCEPT ![t].pc = "store",
                                       ![t].ref = mstl.prvtptr[CurrentSegment(g)]]
       /\ UNCHANGED << mstl, history >>
       /\ TraverseFrame

\* segments(): `....info.traceid_address = ct.addressof(self)`.  A store
\* into a buffer that is no longer live goes to memory that was freed: it
\* is lost, or it lands in a buffer allocated since.
MS3TraceID_segments_store(t) ==
    LET g == msreader[t]
    IN /\ g.pc = "store"
       /\ \E k \in IF mstl.objects[g.ref].live THEN { g.ref }
                   ELSE { NULL } \cup { n \in (g.ref + 1)..Len(mstl.objects) :
                                           mstl.objects[n].live } :
             mstl' = IF k = NULL THEN mstl
                     ELSE [mstl EXCEPT !.objects[k].traceid_address = CurrentTraceid(g)]
       /\ msreader' = [msreader EXCEPT ![t].pc = "yield"]
       /\ UNCHANGED history
       /\ TraverseFrame

\* segments(): the segment is yielded, the visitor reads its
\* info.traceid_address, and the generator moves to _next.
MS3TraceID_segments(t) ==
    LET g    == msreader[t]
        info == mstl.objects[mstl.prvtptr[CurrentSegment(g)]]
    IN /\ g.pc = "yield"
       /\ history' = Append(history, Visit(t, CurrentTraceid(g), g.seg,
                                           info.traceid_address))
       /\ msreader' = [msreader EXCEPT ![t] =
             IF g.seg < Len(mstl.traces[CurrentTraceid(g)].segs)
             THEN [g EXCEPT !.seg = g.seg + 1, !.pc = "info"]
             ELSE [g EXCEPT !.seg = 0, !.pc = "traceids"]]
       /\ UNCHANGED mstl
       /\ TraverseFrame

NextTraverse ==
    \/ \E t \in 1..2 : MSTraceList_traceids(t)
    \/ \E t \in 1..2 : MS3TraceSeg_info_test(t)
    \/ \E t \in 1..2 : MS3TraceSeg_info_allocate(t)
    \/ \E t \in 1..2 : MS3TraceSeg_info_contents(t)
    \/ \E t \in 1..2 : MS3TraceID_segments_store(t)
    \/ \E t \in 1..2 : MS3TraceID_segments(t)

SpecTraverse == InitTraverse /\ [][NextTraverse]_vars

\* Every trace ID in list order, each followed by its segments in order.
RECURSIVE FullTraversal(_)
FullTraversal(order) ==
    IF order = << >> THEN << >>
    ELSE << << Head(order), 0 >> >>
         \o [j \in 1..Len(mstl.traces[Head(order)].segs) |-> << Head(order), j >>]
         \o FullTraversal(Tail(order))

\* What a thread has visited so far, in order.
Visited(t) ==
    LET mine == SelectSeq(history, LAMBDA v : v.thread = t)
    IN [k \in 1..Len(mine) |-> << mine[k].traceid, mine[k].seg >>]

\* C28: two traversals of one trace list that run at the same time, with
\* no insertion or packing in progress, each visit every trace ID and every
\* segment exactly once in list order, every segment shows its visitor the
\* address of its trace ID, as it does in a traversal that runs alone, and
\* no traversal stores into a TraceSegInfo that is no longer allocated.
TraversalsIndependent ==
    /\ \A t \in 1..2 :
          LET full == FullTraversal(traceids(mstl))
          IN /\ Len(Visited(t)) <= Len(full)
             /\ Visited(t) = SubSeq(full, 1, Len(Visited(t)))
             /\ msreader[t].pc = "done" => Visited(t) = full
             /\ msreader[t].pc = "store" => mstl.objects[msreader[t].ref].live
    /\ \A k \in 1..Len(history) : history[k].traceid_address = history[k].traceid

----------------------------------------------------------------------------
(* Start time of a record set from a date-time string                      *)

\* NSTERROR, the time libmseed returns for a string it cannot convert
\* (1902-01-01T00:00:00), here in seconds: no time of the model equals it.
NSTERROR == -2145916800

\* "1970-01-01T00:00:", the date-time strings of the model lie in the
\* first minute of the epoch.
EpochMinute ==
    << "1", "9", "7", "0", "-", "0", "1", "-", "0", "1", "T", "0", "0", ":",
       "0", "0", ":" >>

\* ms_timestr2nstime for strings of the form 1970-01-01T00:00:SS[.F...]:
\* the nanosecond time, or NSTERROR for seconds that are no two digits up
\* to 59 and for a fraction that is not 1 to 9 digits; NSTERROR for every
\* other string of the model.
ms_timestr2nstime(timestr) ==
    LET n    == Len(EpochMinute)
        rest == SubSeq(timestr, n + 1, Len(timestr))
        sec  == SubSeq(rest, 1, 2)
        frac == SubSeq(rest, 4, Len(rest))
    IN IF Len(timestr) < n + 2 \/ SubSeq(timestr, 1, n) # EpochMinute
       THEN NSTERROR
       ELSE IF ~IsDecimal(sec) \/ IntOf(sec) > 59
       THEN NSTERROR
       ELSE IF Len(rest) = 2
       THEN IntOf(sec) * NSTMODULUS
       ELSE IF rest[3] # "." \/ frac = << >> \/ Len(frac) > 9 \/ ~IsDecimal(frac)
       THEN NSTERROR
       ELSE IntOf(sec) * NSTMODULUS + IntOf(frac) * 10 ^ (9 - Len(frac))

\* Date-time strings: three that are times (1 s, 5 ns, 0.5 s) and two that
\* are not (a word, second 61).
TimeStrings ==
    { EpochMinute \o << "0", "1" >>,
      EpochMinute \o << "0", "0", ".", "0", "0", "0", "0", "0", "0", "0", "0", "5" >>,
      EpochMinute \o << "0", "0", ".", "5" >>,
      << "n", "o", "w" >>,
      EpochMinute \o << "6", "1" >> }

\* A call on the record: what it was given and the start time of the
\* record before and after it.
StartTimeCall(outcome, value, before, after) ==
    [op |-> outcome.op, raised |-> outcome.raised, value |-> value,
     before |-> before, after |-> after]

InitStartTime ==
    /\ MSTraceList_init(FALSE)
    /\ msreader = None
    /\ args = None
    /\ stdout = << >>
    /\ history = << >>
    /\ \E starttime \in StartTimeValues :
          ms3record = [MS3Record_init EXCEPT !.starttime = starttime]

StartTimeFrame ==
    UNCHANGED << mstl, split_version, parse_flags, filenames, record_handler,
                 record_handler_data, calls, requested, offered, record_buffer,
                 totals, packing, msreader, args, stdout >>

\* MS3Record.set_starttime_str(value): the converted time is stored, then
\* compared with NSTERROR.
MS3Record_set_starttime_str(value) ==
    LET starttime == ms_timestr2nstime(value)
        outcome   == IF starttime = NSTERROR
                     THEN Raised("set_starttime_str", "ValueError")
                     ELSE Returned("set_starttime_str", << >>)
    IN /\ ms3record' = [ms3record EXCEPT !.starttime = starttime]
       /\ ret' = outcome
       /\ history' = Append(history, StartTimeCall(outcome, value, ms3record.starttime,
                                                   starttime))
       /\ StartTimeFrame

\* The setter of MS3Record.starttime.
MS3Record_starttime(value) ==
    /\ ms3record' = [ms3record EXCEPT !.starttime = value]
    /\ ret' = Returned("starttime", << >>)
    /\ history' = Append(history, StartTimeCall(ret', value, ms3record.starttime, value))
    /\ StartTimeFrame

\* util.timestr2nstime(timestr)
timestr2nstime(timestr) ==
    LET status == ms_timestr2nstime(timestr)
    IN /\ ret' = CalledWith(IF status # NSTERROR
                            THEN Returned("timestr2nstime", << status >>)
                            ELSE Raised("timestr2nstime", "ValueError"),
                            << timestr >>)
       /\ UNCHANGED << ms3record, history >>
       /\ StartTimeFrame

\* At most MaxRecords calls are made on the record.
SetFromString ==
    \E value \in TimeStrings :
        Len(history) < MaxRecords /\ MS3Record_set_starttime_str(value)

SetStartTime ==
    \E value \in StartTimeValues :
        Len(history) < MaxRecords /\ MS3Record_starttime(value)

ConvertString ==
    \E timestr \in TimeStrings :
        Len(history) <= MaxRecords /\ timestr2nstime(timestr)

NextStartTime == SetFromString \/ SetStartTime \/ ConvertString

SpecStartTime == InitStartTime /\ [][NextStartTime]_vars

\* C29: set_starttime_str given a string that is no time raises ValueError
\* and leaves the start time of the record as it was before the call, and
\* given a time sets it; after any sequence of calls of the setters the
\* start time of the record is not NSTERROR.
StartTimeSetterAtomic ==
    /\ ms3record.starttime # NSTERROR
    /\ \A i \in 1..Len(history) :
          LET e == history[i]
          IN e.op = "set_starttime_str" =>
                IF ms_timestr2nstime(e.value) = NSTERROR
                THEN e.raised = "ValueError" /\ e.after = e.before
                ELSE e.raised = "" /\ e.after = ms_timestr2nstime(e.value)

----------------------------------------------------------------------------
(* The buffer of nslc2sourceid                                             *)

\* C30: nslc2sourceid never lets the library write past the buffer it
\* created: the length it declares is at most the length of the buffer, and
\* every call either raises ValueError or returns the whole identifier,
\* which with its terminator fits the buffer.
SourceIdFitsBuffer ==
    \A i \in 1..Len(history) :
        LET e == history[i]
        IN e.op = "nslc2sourceid" =>
              /\ LM_SIDLEN + 1 <= SourceIdBuffer
              /\ \/ e.raised = "ValueError"
                 \/ /\ e.raised = ""
                    /\ Len(e.val[1]) + 1 <= SourceIdBuffer
                    /\ e.val[1] = ms_nslc2sid(LM_SIDLEN + 1, e.args[1], e.args[2],
                                              e.args[3], e.args[4]).sid

====
